---- MODULE Spec2Model ----
(***************************************************************************)
(* Model of the streaming relay of src/app/api/chat/route.ts: the          *)
(* ReadableStream start() callback that reads the upstream run stream,     *)
(* frames it into lines, re-emits selected events downstream, executes     *)
(* tool calls, submits their outputs and relays the continuation stream.   *)
(*                                                                         *)
(* Upstream bytes are modelled as short tokens.  One token stands for a    *)
(* piece of the framing syntax ("data:", " ", "\n", each of the two bytes  *)
(* of a two-byte UTF-8 character) or for one lexical unit of the JSON      *)
(* payload (the object tag, a status, a content part, a tool call).        *)
(***************************************************************************)
EXTENDS Integers, Sequences, FiniteSets, TLC

(* ------------------------------ bounds --------------------------------- *)
MaxLines == 2
MaxCalls == 2

(* ------------------------- small sequence helpers ---------------------- *)
Last(s) == s[Len(s)]
AllButLast(s) == SubSeq(s, 1, Len(s) - 1)
Range(s) == {s[i] : i \in 1..Len(s)}

RECURSIVE Flatten(_)
Flatten(ss) == IF ss = <<>> THEN <<>> ELSE Head(ss) \o Flatten(Tail(ss))

RECURSIVE SeqsUpTo(_, _)
SeqsUpTo(S, n) ==
  IF n = 0 THEN {<<>>}
  ELSE LET shorter == SeqsUpTo(S, n - 1)
       IN shorter \cup {Append(s, x) : s \in {t \in shorter : Len(t) = n - 1}, x \in S}

(* ------------------------ TextDecoder (UTF-8) -------------------------- *)
(* The only multi-byte character of the model is the two-byte sequence     *)
(* C3 A9.  A lead byte that is not followed by its continuation byte, and  *)
(* a continuation byte without its lead, decode to U+FFFD.                 *)
Replacement == "U+FFFD"

RECURSIVE DecodeFrom(_, _)
DecodeFrom(bytes, stream) ==
  IF bytes = <<>> THEN [text |-> <<>>, pending |-> <<>>]
  ELSE IF Head(bytes) = "C3"
    THEN IF Len(bytes) = 1
           THEN IF stream THEN [text |-> <<>>, pending |-> <<"C3">>]
                          ELSE [text |-> <<Replacement>>, pending |-> <<>>]
         ELSE IF bytes[2] = "A9"
           THEN LET r == DecodeFrom(SubSeq(bytes, 3, Len(bytes)), stream)
                IN [text |-> <<"e'">> \o r.text, pending |-> r.pending]
         ELSE LET r == DecodeFrom(Tail(bytes), stream)
              IN [text |-> <<Replacement>> \o r.text, pending |-> r.pending]
  ELSE IF Head(bytes) = "A9"
    THEN LET r == DecodeFrom(Tail(bytes), stream)
         IN [text |-> <<Replacement>> \o r.text, pending |-> r.pending]
  ELSE LET r == DecodeFrom(Tail(bytes), stream)
       IN [text |-> <<Head(bytes)>> \o r.text, pending |-> r.pending]

(* decoder.decode(value, { stream: true }) with the decoder's held bytes   *)
Decode(pending, value) == DecodeFrom(pending \o value, TRUE)

(* --------------------------- String.split("\n") ------------------------ *)
RECURSIVE Split(_)
Split(text) ==
  IF \A i \in 1..Len(text) : text[i] # "\n" THEN <<text>>
  ELSE LET i == CHOOSE j \in 1..Len(text) :
                  text[j] = "\n" /\ \A k \in 1..(j - 1) : text[k] # "\n"
       IN <<SubSeq(text, 1, i - 1)>> \o Split(SubSeq(text, i + 1, Len(text)))

(* buffer = lines.pop() || ""  : the fragment after the last newline stays *)
DropTrailing(parts) == <<>>
Retained(parts) == Last(parts)

SubmitRetained(parts) == Last(parts)

(* line.startsWith("data: ") and line.slice(6)                             *)
DataPrefix == <<"data:", " ">>
StartsWithData(line) ==
  Len(line) >= Len(DataPrefix) /\ SubSeq(line, 1, Len(DataPrefix)) = DataPrefix
Slice6(line) == SubSeq(line, Len(DataPrefix) + 1, Len(line))
DoneMarker == <<"[DONE]">>

(* ------------------------------ JSON.parse ----------------------------- *)
(* A payload is well-formed JSON when it is "{" tag ... "}" :              *)
(*   M p1 .. pn   {object: "thread.message.delta", delta: {content: [..]}} *)
(*   m            {object: "thread.message.delta"}   (no delta member)     *)
(*   R s c1 .. cn {object: "thread.run", status: s, required_action: ..}   *)
(*   O            any other object                                         *)
(* Content parts: "x", "e'", U+FFFD are text parts with that value, "0" is *)
(* a text part with an empty value, "i" is an image_file part.             *)
TextValues == {"x", "e'", Replacement}
PartTokens == TextValues \cup {"0", "i"}
StatusTokens == {"q", "c", "f", "p"}
CallTokens == {"g", "v", "j", "u", "n"}

StatusOf(tok) ==
  CASE tok = "q" -> "requires_action"
    [] tok = "c" -> "completed"
    [] tok = "f" -> "failed"
    [] OTHER -> "in_progress"

NoEvent ==
  [ok |-> FALSE, object |-> "", status |-> "", hasDelta |-> FALSE,
   parts |-> <<>>, calls |-> <<>>]

JsonParse(data) ==
  IF Len(data) < 3 \/ Head(data) # "{" \/ Last(data) # "}" THEN NoEvent
  ELSE LET tag == data[2]
           rest == SubSeq(data, 3, Len(data) - 1)
       IN CASE tag = "M" /\ Range(rest) \subseteq PartTokens ->
                 [NoEvent EXCEPT !.ok = TRUE, !.object = "thread.message.delta",
                                 !.hasDelta = TRUE, !.parts = rest]
            [] tag = "m" /\ rest = <<>> ->
                 [NoEvent EXCEPT !.ok = TRUE, !.object = "thread.message.delta"]
            [] tag = "R" /\ rest # <<>> /\ Head(rest) = "q"
                         /\ Range(Tail(rest)) \subseteq CallTokens ->
                 [NoEvent EXCEPT !.ok = TRUE, !.object = "thread.run",
                                 !.status = StatusOf("q"), !.calls = Tail(rest)]
            [] tag = "R" /\ Len(rest) = 1 /\ Head(rest) \in StatusTokens \ {"q"} ->
                 [NoEvent EXCEPT !.ok = TRUE, !.object = "thread.run",
                                 !.status = StatusOf(Head(rest))]
            [] tag = "O" /\ rest = <<>> ->
                 [NoEvent EXCEPT !.ok = TRUE, !.object = "thread.run.step"]
            [] OTHER -> NoEvent

(* ------------------------------ JS values ------------------------------ *)
Undefined == "<undefined>"
Str(x) == [t |-> "string", s |-> x, n |-> 0]
Num(k) == [t |-> "number", s |-> "", n |-> k]
Bool(b) == [t |-> "boolean", s |-> "", n |-> IF b THEN 1 ELSE 0]
Undef == [t |-> "undefined", s |-> "", n |-> 0]
Truthy(v) ==
  CASE v.t = "string" -> v.s # ""
    [] v.t = "number" -> v.n # 0
    [] v.t = "boolean" -> v.n = 1
    [] OTHER -> FALSE
Arr(elems) == [t |-> "array", elems |-> elems]
NoArr == [t |-> "undefined", elems |-> <<>>]

(* ----------------- validateEstimateData (lib/pdf-webhook) -------------- *)
Valid == [valid |-> TRUE, error |-> Undefined]
NoVerdict == [valid |-> FALSE, error |-> Undefined]
Invalid(msg) == [valid |-> FALSE, error |-> msg]
ItemError(i, what) == "Item " \o ToString(i) \o ": " \o what

UnitsCheckedLast(item, i) ==
  IF ~Truthy(item.description) \/ item.description.t # "string"
    THEN Invalid(ItemError(i, "Missing or invalid description"))
  ELSE IF item.cost.t # "number" \/ item.cost.n < 0
    THEN Invalid(ItemError(i, "Invalid cost (must be a non-negative number)"))
  ELSE IF item.amount.t # "number" \/ item.amount.n < 0
    THEN Invalid(ItemError(i, "Invalid amount (must be a non-negative number)"))
  ELSE IF item.units.t # "number" \/ item.units.n <= 0
    THEN Invalid(ItemError(i, "Invalid units (must be a positive number)"))
  ELSE Valid
ValidateItem(item, i) ==
  IF ~Truthy(item.description) \/ item.description.t # "string"
    THEN Invalid(ItemError(i, "Missing or invalid description"))
  ELSE IF item.units.t # "number" \/ item.units.n <= 0
    THEN Invalid(ItemError(i, "Invalid units (must be a positive number)"))
  ELSE IF item.cost.t # "number" \/ item.cost.n < 0
    THEN Invalid(ItemError(i, "Invalid cost (must be a non-negative number)"))
  ELSE IF item.amount.t # "number" \/ item.amount.n < 0
    THEN Invalid(ItemError(i, "Invalid amount (must be a non-negative number)"))
  ELSE Valid

RECURSIVE ValidateItems(_, _)
ValidateItems(elems, i) ==
  IF i > Len(elems) THEN Valid
  ELSE LET r == ValidateItem(elems[i], i)
       IN IF r.valid THEN ValidateItems(elems, i + 1) ELSE r

AlwaysValid(params) == Valid

ValidateEstimateData(params) ==
  IF ~Truthy(params.to) \/ params.to.t # "string"
    THEN Invalid("Missing or invalid \"to\" field (client information)")
  ELSE IF params.items.t # "array" \/ Len(params.items.elems) = 0
    THEN Invalid("Missing or invalid \"items\" field (must be a non-empty array)")
  ELSE LET r == ValidateItems(params.items.elems, 1)
       IN IF ~r.valid THEN r
          ELSE IF Truthy(params.email) /\ params.email.t # "string"
            THEN Invalid("Invalid email field (must be a string)")
          ELSE IF Truthy(params.clientName) /\ params.clientName.t # "string"
            THEN Invalid("Invalid clientName field (must be a string)")
          ELSE Valid

(* ------------------ generatePDFEstimate (lib/pdf-webhook) -------------- *)
WebhookOutcomes == {"ok", "http_error", "network_error"}
StatusIgnored(params, outcome) ==
  IF outcome = "network_error"
    THEN [success |-> FALSE, message |-> "Failed to generate PDF estimate",
          error |-> "fetch failed"]
  ELSE [success |-> TRUE,
        message |-> "PDF estimate generation initiated successfully. ",
        error |-> Undefined]
OkTakenAsFailure(params, outcome) ==
  [success |-> FALSE, message |-> "Failed to generate PDF estimate",
   error |-> "Webhook request failed: 200 - Accepted"]
GeneratePDFEstimate(params, outcome) ==
  CASE outcome = "ok" ->
         [success |-> TRUE,
          message |-> "PDF estimate generation initiated successfully. "
                      \o (IF Truthy(params.email)
                            THEN "PDF will be sent to " \o params.email.s
                            ELSE "PDF generation in progress."),
          error |-> Undefined]
    [] outcome = "http_error" ->
         [success |-> FALSE, message |-> "Failed to generate PDF estimate",
          error |-> "Webhook request failed: 500 - error"]
    [] OTHER ->
         [success |-> FALSE, message |-> "Failed to generate PDF estimate",
          error |-> "fetch failed"]

(* ------------------------------ tool calls ----------------------------- *)
(* The tool call objects the call tokens stand for.                        *)
PdfTool == "generate_pdf_estimate"
ToolCallOf(tok, id) ==
  [id |-> id,
   hasFunction |-> tok # "n",
   name |-> CASE tok \in {"g", "v", "j"} -> PdfTool
              [] tok = "u" -> "get_weather"
              [] OTHER -> Undefined,
   arguments |-> tok]

ToolCallsOf(calls) == [i \in 1..Len(calls) |-> ToolCallOf(calls[i], i)]

WidgetItem ==
  [description |-> Str("widget"), units |-> Num(10), cost |-> Num(5),
   amount |-> Num(50)]
NotRendered == [rows |-> <<>>, total |-> ""]
NoParams == [to |-> Undef, items |-> NoArr, email |-> Undef, clientName |-> Undef]

(* JSON.parse(toolCall.function.arguments)                                 *)
ParseArguments(arguments) ==
  CASE arguments = "g" ->
         [ok |-> TRUE,
          params |-> [to |-> Str("Acme"), items |-> Arr(<<WidgetItem, WidgetItem>>),
                      email |-> Str("a@b.c"), clientName |-> Undef]]
    [] arguments = "v" ->
         [ok |-> TRUE,
          params |-> [to |-> Str(""), items |-> Arr(<<>>),
                      email |-> Undef, clientName |-> Undef]]
    [] OTHER -> [ok |-> FALSE, params |-> NoParams]

(* the output objects pushed on toolOutputs (JSON.stringify of a result)   *)
ToolOutput(id, result) == [tool_call_id |-> id, output |-> result]
FailureResult(msg) == [success |-> FALSE, message |-> Undefined, error |-> msg]
NamelessResult(name) == FailureResult("Unknown tool")
UnknownToolResult(name) == FailureResult("Unknown tool: " \o name)
ArgumentsSyntaxError == "Unexpected token in JSON"
EnqueueTypeError == "Invalid state: Controller is already closed"

(* --------------------------- downstream events ------------------------- *)
(* One record per controller.enqueue call.  "via" is not on the wire: it   *)
(* records which part of the relay emitted the event.                      *)
NoResult == [success |-> FALSE, message |-> Undefined, error |-> Undefined]
Event(type, content, result, via) ==
  [type |-> type, content |-> content, result |-> result, via |-> via]

WrongFirstEvent(id) == Event("content", id, NoResult, "start")
ThreadIdEvent(id) == Event("thread_id", id, NoResult, "start")
ContentEvent(value, via) == Event("content", value, NoResult, via)
ResultAsContent(result) == Event("content", PdfTool, result, "tool")

ToolResultEvent(result) == Event("tool_result", PdfTool, result, "tool")
RunFailedMessage == "The assistant run failed. Please try again."
RunFailedEvent == Event("error", RunFailedMessage, NoResult, "primary")
StreamErrorMessage == "An error occurred while processing your request."
StreamErrorEvent == Event("error", StreamErrorMessage, NoResult, "catch")

(* for (const content of delta.content)
     if (content.type === "text" && content.text?.value) enqueue(...)      *)
FirstPartOnly(parts, via) ==
  LET texts == SelectSeq(parts, LAMBDA p : p \in TextValues)
  IN IF texts = <<>> THEN <<>> ELSE <<ContentEvent(texts[1], via)>>

TextPartEvents(parts, via) ==
  LET texts == SelectSeq(parts, LAMBDA p : p \in TextValues)
  IN [i \in 1..Len(texts) |-> ContentEvent(texts[i], via)]

(* What the handler of one parsed event of the primary stream enqueues     *)
(* (requires_action is handled by the tool actions below).  A delta event  *)
(* without a delta member throws before anything is enqueued.              *)
FailedSilent(event) == <<>>
FailedEvents(event) == <<RunFailedEvent>>

ThrowReported(event) ==
  CASE event.object = "thread.message.delta" ->
         IF event.hasDelta THEN TextPartEvents(event.parts, "primary")
         ELSE <<StreamErrorEvent>>
    [] event.object = "thread.run" /\ event.status = "failed" -> FailedEvents(event)
    [] OTHER -> <<>>

EventEvents(event) ==
  CASE event.object = "thread.message.delta" ->
         IF event.hasDelta THEN TextPartEvents(event.parts, "primary") ELSE <<>>
    [] event.object = "thread.run" /\ event.status = "failed" -> FailedEvents(event)
    [] OTHER -> <<>>

NestedRound(event) ==
  IF event.object = "thread.message.delta" /\ event.hasDelta
    THEN TextPartEvents(event.parts, "cont")
    ELSE IF event.object = "thread.run" /\ event.status = "requires_action"
           THEN <<ToolResultEvent(NoResult)>>
           ELSE <<>>

SubmitEventEvents(event) ==
  IF event.object = "thread.message.delta" /\ event.hasDelta
    THEN TextPartEvents(event.parts, "cont")
    ELSE <<>>

IsDataLine(line) == StartsWithData(line) /\ Slice6(line) # DoneMarker

LineEvents(line) ==
  IF ~IsDataLine(line) THEN <<>>
  ELSE LET event == JsonParse(Slice6(line))
       IN IF event.ok THEN EventEvents(event) ELSE <<>>

SubmitLineEvents(line) ==
  IF ~IsDataLine(line) THEN <<>>
  ELSE LET event == JsonParse(Slice6(line))
       IN IF event.ok THEN SubmitEventEvents(event) ELSE <<>>

(* controller.enqueue: throws a TypeError once the stream is closed; every *)
(* caller of this operator sits in a try block that swallows the throw.    *)
Enqueue(c, queue, evs) == IF c = "open" THEN queue \o evs ELSE queue

(* the catch inside the for loop: the lines after the failing one go on   *)
DropRest(rest) == <<>>
AfterParseError(rest) == rest

(* ------------------------------- inputs -------------------------------- *)
Line(payload) == DataPrefix \o payload
DeltaLine(parts) == Line(<<"{", "M">> \o parts \o <<"}">>)
RunLine(status, calls) == Line(<<"{", "R", status>> \o calls \o <<"}">>)
MalformedLine == Line(<<"{", "M", "x">>)
EventNameLine == <<"event:">>
BasicLines ==
  { DeltaLine(<<"x">>), DeltaLine(<<"i", "C3", "A9", "0", "x">>),
    RunLine("f", <<>>), MalformedLine, EventNameLine }

(* the byte stream of a sequence of lines; the last line may lack its "\n" *)
Bytes(ls, terminated) ==
  LET all == Flatten([i \in 1..Len(ls) |-> Append(ls[i], "\n")])
  IN IF terminated \/ ls = <<>> THEN all ELSE AllButLast(all)

FramingStreams ==
  {Bytes(ls, t) : ls \in SeqsUpTo(BasicLines, MaxLines), t \in BOOLEAN}

(* the lines of a run that completes, and lines the relay has no use for   *)
OtherStreams ==
  { Bytes(<<EventNameLine, DeltaLine(<<"x">>), <<>>, EventNameLine,
            RunLine("c", <<>>), <<>>, Line(DoneMarker), <<>>>>, TRUE),
    Bytes(<<Line(<<"{", "m", "}">>), Line(<<"{", "O", "}">>), RunLine("p", <<>>),
            DeltaLine(<<"x">>)>>, TRUE) }

Batches == SeqsUpTo(CallTokens, MaxCalls)
ToolStreams == {Bytes(<<RunLine("q", b)>>, TRUE) : b \in Batches}

(* tool rounds with primary lines around them, and two rounds in a stream  *)
RoundStreams ==
  { Bytes(<<DeltaLine(<<"x">>), RunLine("q", <<"g">>), DeltaLine(<<"x">>)>>, TRUE),
    Bytes(<<RunLine("q", <<"u", "g">>), RunLine("f", <<>>)>>, TRUE),
    Bytes(<<RunLine("q", <<>>), RunLine("q", <<"g">>)>>, TRUE),
    Bytes(<<RunLine("q", <<"u">>), RunLine("q", <<"u">>)>>, TRUE),
    Bytes(<<RunLine("q", <<"g">>), DeltaLine(<<"x">>)>>, FALSE) }

Streams == FramingStreams \cup OtherStreams \cup ToolStreams \cup RoundStreams

(* the bodies a successful submit_tool_outputs response may carry          *)
ContStreams ==
  { Bytes(<<DeltaLine(<<"x", "C3", "A9">>)>>, TRUE),
    Bytes(<<RunLine("f", <<>>), DeltaLine(<<"x">>)>>, FALSE),
    Bytes(<<MalformedLine, RunLine("q", <<"g">>), DeltaLine(<<"x">>)>>, TRUE) }

(* --------------------------- the chat request ------------------------- *)
MaxFiles == 2

(* formData.get(..) is null for a field the form does not carry            *)
Null == "<null>"
NullField == [t |-> "null", chars |-> <<>>]
Field(chars) == [t |-> "string", chars |-> chars]

(* String.prototype.trim(): white space is removed from both ends          *)
WhiteSpace == {" ", "\n"}
RECURSIVE TrimStart(_)
TrimStart(chars) ==
  IF chars # <<>> /\ Head(chars) \in WhiteSpace THEN TrimStart(Tail(chars))
  ELSE chars
RECURSIVE TrimEnd(_)
TrimEnd(chars) ==
  IF chars # <<>> /\ Last(chars) \in WhiteSpace THEN TrimEnd(AllButLast(chars))
  ELSE chars
Trim(chars) == TrimEnd(TrimStart(chars))

(* !message || message.trim().length === 0, negated                        *)
AnyMessage(message) == TRUE
UsableMessage(message) ==
  /\ message.t = "string"
  /\ message.chars # <<>>
  /\ Len(Trim(message.chars)) # 0

(* !currentThreadId : null and the empty string are falsy                  *)
Falsy(id) == id \in {Null, ""}

(* the entries of the form whose key starts with "file_"                   *)
FileEntry(name, type) == [kind |-> "File", name |-> name, type |-> type]
Pdf == FileEntry("a.pdf", "application/pdf")
Png == FileEntry("p.png", "image/png")
StringEntry == [kind |-> "string", name |-> "", type |-> ""]
IsFile(entry) == entry.kind = "File"

Messages ==
  { NullField, Field(<<>>), Field(<<" ", "\n">>), Field(<<"Q">>),
    Field(<<" ", "Q", "\n">>) }
SuppliedThreadId == "thread_7"
CreatedThreadId == "thread_1"
Form(message, thread, files) ==
  [parsable |-> TRUE, message |-> message, threadId |-> thread, files |-> files]
MalformedBody == [Form(NullField, Null, <<>>) EXCEPT !.parsable = FALSE]
Forms ==
  { Form(m, t, fs) : m \in Messages, t \in {Null, SuppliedThreadId},
                     fs \in SeqsUpTo({Pdf, Png}, MaxFiles) }
  \cup { MalformedBody,
         Form(Field(<<"Q">>), "", <<>>),
         Form(Field(<<"Q">>), Null, <<StringEntry, Pdf>>) }
Envs == [apiKey : BOOLEAN, assistantId : BOOLEAN]

(* the responses of POST                                                   *)
NoResponse == [kind |-> "none", status |-> 0, error |-> "", details |-> ""]
JsonError(status, error, details) ==
  [kind |-> "json", status |-> status, error |-> error, details |-> details]
EventStream == [kind |-> "stream", status |-> 200, error |-> "", details |-> ""]

(* how a fetch to the upstream API settles, and the message of the Error   *)
(* the handler's catch then reports                                        *)
FetchOutcomes == {"ok", "not_ok", "throws"}
ErrorData == "<upstream error body>"
FetchFailed == "fetch failed"
Details(prefix, outcome) ==
  IF outcome = "not_ok" THEN prefix \o ErrorData ELSE FetchFailed

(* one record per fetch the handler issues before it responds              *)
Call(op, thread, file, content, attachments, outcome) ==
  [op |-> op, thread |-> thread, file |-> file, content |-> content,
   attachments |-> attachments, ok |-> (outcome = "ok")]

FileIdOf(name) == "file-" \o name

AttachmentsReversed(ids) ==
  [i \in 1..Len(ids) |-> [file_id |-> ids[Len(ids) + 1 - i], tools |-> <<"file_search">>]]

(* fileIds.map(fileId => ({file_id: fileId, tools: [{type: "file_search"}]})) *)
Attachments(ids) ==
  [i \in 1..Len(ids) |-> [file_id |-> ids[i], tools |-> <<"file_search">>]]

(* const messageData = {role: "user", content: message}, and attachments   *)
(* if (fileIds.length > 0)                                                 *)
MessageData(message, ids) ==
  [role |-> "user", content |-> message.chars, attachments |-> Attachments(ids)]

(* the run response bodies of the requests followed into the relay         *)
RequestStreams ==
  { Bytes(<<RunLine("q", <<"g">>)>>, TRUE),
    Bytes(<<RunLine("q", <<"g", "g">>)>>, TRUE) }

(* ------------------------------- state --------------------------------- *)
(* ---------------------- the generate-pdf request ---------------------- *)
EstimateNumber == "00001"

(* the value JSON.parse returns: an object with some of the members, null, *)
(* or a primitive (whose members all read as undefined)                    *)
Data(to, items, email, number) ==
  [t |-> "object", to |-> to, items |-> items, email |-> email,
   estimateNumber |-> number]
JsonNull == [Data(Undef, NoArr, Undef, Undef) EXCEPT !.t = "null"]
JsonNumber == [Data(Undef, NoArr, Undef, Undef) EXCEPT !.t = "number"]
Destructurable(data) == data.t # "null"
DestructureError == "Cannot destructure property 'to' of 'data' as it is null."

(* the text of a body: JSON.stringify of a value, or text that is no JSON  *)
Stringify(data) == [json |-> TRUE, data |-> data]
Garbage == [json |-> FALSE, data |-> JsonNull]
ParseBody(raw) == [ok |-> raw.json, data |-> raw.data]

(* items that is a non-empty string: truthy, and its length is not 0       *)
ItemsString == [t |-> "string", elems |-> <<>>]
ItemsTruthy(items) == items.t # "undefined"
LengthIsZero(items) == items.t = "array" /\ Len(items.elems) = 0

PdfBodies ==
  {Garbage, Stringify(JsonNull), Stringify(JsonNumber)}
  \cup { Stringify(Data(to, items, email, number)) :
           to \in {Undef, Str(""), Str("Acme"), Num(0), Num(5)},
           items \in {NoArr, Arr(<<>>), Arr(<<WidgetItem>>),
                      Arr(<<WidgetItem, WidgetItem>>), ItemsString},
           email \in {Undef, Str("a@b.c")},
           number \in {Undef, Str("00031")} }

(* the argument of generateEstimatePDFBackup                               *)
RenderArgs(data) ==
  [to |-> data.to, email |-> data.email, items |-> data.items,
   estimateNumber |-> EstimateNumber]
RenderOutcomes == {"buffer", "throws"}
PdfBuffer == "%PDF"
RenderError == "<renderer error>"

(* the responses of the generate-pdf POST                                  *)
NoPdfResponse ==
  [status |-> 0, contentType |-> "", disposition |-> "", error |-> "",
   details |-> "", body |-> ""]
PdfJson(status, error, details) ==
  [status |-> status, contentType |-> "application/json", disposition |-> "",
   error |-> error, details |-> details, body |-> ""]
InlinePdf(buffer, number) ==
  [status |-> 200, contentType |-> "application/pdf", disposition |-> "inline",
   error |-> "", details |-> "", body |-> buffer]
PdfOk(buffer, number) ==
  [status |-> 200, contentType |-> "application/pdf",
   disposition |-> "attachment; filename=\"estimate-" \o number \o ".pdf\"",
   error |-> "", details |-> "", body |-> buffer]
MissingFields == "Missing required fields: to and items are required"

VARIABLES
  upstream,        \* bytes of runResponse.body
  pos,             \* bytes of upstream already returned by reader.read()
  pc,              \* where start() is: an await it is suspended at, or a loop
  decoderPending,  \* bytes held by decoder between decode(.., {stream: true})
  buffer,          \* let buffer
  lines,           \* lines of the current chunk not yet handled by the for loop
  toolCalls,       \* const toolCalls of the requires_action event being handled
  toolIdx,         \* index of the tool call the for loop is at
  toolOutputs,     \* const toolOutputs
  submitStream,    \* bytes of submitResponse.body
  submitPos,       \* bytes of submitStream already read
  submitPending,   \* bytes held by submitDecoder
  submitBuffer,    \* let submitBuffer
  enqueued,        \* what controller.enqueue has put on the downstream stream
  conn,            \* state of the downstream stream: "open" or "closed"
  closeCalls,      \* number of controller.close() calls that closed the stream
  cancelled,       \* the client has gone away (the stream was cancelled)
  exitPath,        \* how the read loop was left
  batchLog,        \* the tool call lists of the requires_action events handled
  submitted,       \* the submit_tool_outputs requests issued
  webhooks,        \* the outcomes of the generatePDFEstimate calls
  conts,           \* the continuation streams relayed: bytes, first event, end
  rejoined,        \* a content line that arrived split over two chunks was handled
  env,             \* process.env: which of the two settings are present
  form,            \* the body of the POST request
  fileIdx,         \* index of the form entry the upload loop is at
  fileIds,         \* const fileIds
  currentThreadId, \* let currentThreadId
  response,        \* what POST returned
  fetches,         \* the fetches issued before POST returned, in order
  threadId,        \* ChatInterface: const [threadId, setThreadId]
  clientPc,        \* where sendMessage is: idle, awaiting fetch, or reading
  sent,            \* the form data of the requests sendMessage has posted
  body,            \* bytes of response.body of the request being read
  bodyPos,         \* bytes of body already returned by reader.read()
  accumulatedContent, \* let accumulatedContent
  bubble,          \* content of the assistant message of the current send
  sends,           \* how each finished sendMessage ended: "ok" or "error"
  threads,         \* the threads the server created for this client
  estimate,        \* the params validateEstimateData is called with
  verdict,         \* what validateEstimateData returned
  rendered,        \* what generateEstimate wrote: the item rows and the total
  pdfBody,         \* generate-pdf: the body of the request
  pdfPc,           \* generate-pdf: where POST is
  pdfResponse,     \* generate-pdf: what POST returned
  renders,         \* the generateEstimatePDFBackup calls: arguments, outcome
  frames,          \* two concurrent POSTs: the objects and position of each
  scopes           \* two concurrent POSTs: the bindings start() declares

vars ==
  <<upstream, pos, pc, decoderPending, buffer, lines, toolCalls, toolIdx,
    toolOutputs, submitStream, submitPos, submitPending, submitBuffer,
    enqueued, conn, closeCalls, cancelled, exitPath, batchLog, submitted,
    webhooks, conts, rejoined, env, form, fileIdx, fileIds, currentThreadId,
    response, fetches, threadId, clientPc, sent, body, bodyPos,
    accumulatedContent, bubble, sends, threads, estimate, verdict,
    rendered, pdfBody, pdfPc, pdfResponse, renders, frames, scopes>>

requestVars ==
  <<env, form, fileIdx, fileIds, currentThreadId, response, fetches>>
clientVars ==
  <<threadId, clientPc, sent, body, bodyPos, accumulatedContent, bubble, sends,
    threads>>
estimateVars == <<estimate, verdict, rendered>>
pdfVars == <<pdfBody, pdfPc, pdfResponse, renders>>
pairVars == <<frames, scopes>>
utilVars == <<estimateVars, pdfVars, pairVars>>
otherVars == <<clientVars, utilVars>>
primaryVars == <<upstream, pos, decoderPending, buffer>>
toolVars == <<toolCalls, toolIdx, toolOutputs>>
submitVars == <<submitStream, submitPos, submitPending, submitBuffer>>
downVars == <<enqueued, conn, closeCalls, cancelled>>
logVars == <<batchLog, submitted, webhooks, conts>>

(* a chunk completes a line whose beginning was held over in the buffer   *)
Rejoins(held, parts, evs) == held # <<>> /\ Len(parts) >= 2 /\ evs # <<>>

AwaitPcs == {"read", "tool_await", "submit_await", "cont_read"}

(* the relay before start(controller) runs                                 *)
RelayIdle ==
  /\ pos = 0
  /\ decoderPending = <<>>
  /\ buffer = <<>>
  /\ lines = <<>>
  /\ toolCalls = <<>>
  /\ toolIdx = 0
  /\ toolOutputs = <<>>
  /\ submitStream = <<>>
  /\ submitPos = 0
  /\ submitPending = <<>>
  /\ submitBuffer = <<>>
  /\ enqueued = <<>>
  /\ conn = "open"
  /\ closeCalls = 0
  /\ cancelled = FALSE
  /\ exitPath = "none"
  /\ batchLog = <<>>
  /\ submitted = <<>>
  /\ webhooks = <<>>
  /\ conts = <<>>
  /\ rejoined = FALSE

(* no chat window is open, and nothing is being validated                  *)
ClientIdle ==
  /\ threadId = Null
  /\ clientPc = "idle"
  /\ sent = <<>>
  /\ body = <<>>
  /\ bodyPos = 0
  /\ accumulatedContent = <<>>
  /\ bubble = <<>>
  /\ sends = <<>>
  /\ threads = <<>>
EstimateIdle ==
  /\ estimate = NoParams
  /\ verdict = NoVerdict
  /\ rendered = NotRendered
PdfIdle ==
  /\ pdfBody = Garbage
  /\ pdfPc = "idle"
  /\ pdfResponse = NoPdfResponse
  /\ renders = <<>>
  /\ frames = <<>>
  /\ scopes = <<>>

(* a request without attachments and without threadId that was served:     *)
(* the thread was created, the message appended and the run started        *)
ServedForm == Form(Field(<<"Q">>), Null, <<>>)
ServedCalls ==
  << Call("createThread", Null, "", <<>>, <<>>, "ok"),
     Call("appendMessage", CreatedThreadId, "", <<"Q">>, <<>>, "ok"),
     Call("startRun", CreatedThreadId, "", <<>>, <<>>, "ok") >>

(* the relay of a served request: POST has returned the event stream       *)
Init ==
  /\ upstream \in Streams
  /\ pc = "start"
  /\ RelayIdle
  /\ env = [apiKey |-> TRUE, assistantId |-> TRUE]
  /\ form = ServedForm
  /\ fileIdx = 1
  /\ fileIds = <<>>
  /\ currentThreadId = CreatedThreadId
  /\ response = EventStream
  /\ fetches = ServedCalls
  /\ ClientIdle
  /\ EstimateIdle
  /\ PdfIdle

(* where the for loop over the lines of a chunk goes on                    *)
Resume(rest) == IF rest = <<>> THEN "read" ELSE "lines"

(* finally { controller.close() } : close() throws on a closed stream      *)
NeverCloses(c, n) == [conn |-> c, closeCalls |-> n]
CloseSkipped(c, n) == [conn |-> c, closeCalls |-> n]

Finally(c, n) ==
  IF c = "open" THEN [conn |-> "closed", closeCalls |-> n + 1]
  ELSE [conn |-> c, closeCalls |-> n]

(* catch (streamError) { controller.enqueue(error event) }                 *)
CatchSilent(c, queue) == queue
CatchStreamError(c, queue) == Enqueue(c, queue, <<StreamErrorEvent>>)

(* if (done) break: the loop is left without a look at the buffer, so the  *)
(* events its text would yield as a line are not produced                  *)
BufferFlushed(evs) == evs
AtEndOfStream(evs) == <<>>

(* ------------------------------- actions ------------------------------- *)
(* start(controller), up to the first await: the thread_id event, then the *)
(* reader of the run response; without a body the catch and finally run.   *)
Start ==
  /\ pc = "start"
  /\ \E hasBody \in BOOLEAN :
       IF hasBody
         THEN /\ enqueued' = <<ThreadIdEvent(currentThreadId)>>
              /\ pc' = "read"
              /\ UNCHANGED <<conn, closeCalls, exitPath>>
         ELSE LET f == Finally(conn, closeCalls)
              IN /\ enqueued' = CatchStreamError(conn, <<ThreadIdEvent(currentThreadId)>>)
                 /\ conn' = f.conn
                 /\ closeCalls' = f.closeCalls
                 /\ pc' = "done"
                 /\ exitPath' = "no_reader"
  /\ UNCHANGED <<primaryVars, lines, toolVars, submitVars, cancelled, logVars,
                 rejoined>>
  /\ UNCHANGED <<requestVars, otherVars>>

(* reader.read() returns a chunk: decode, append, split, keep the tail     *)
ReadChunk ==
  /\ pc = "read"
  /\ \E k \in 1..(Len(upstream) - pos) :
       LET value == SubSeq(upstream, pos + 1, pos + k)
           d == Decode(decoderPending, value)
           parts == Split(buffer \o d.text)
       IN /\ pos' = pos + k
          /\ decoderPending' = d.pending
          /\ buffer' = Retained(parts)
          /\ lines' = AllButLast(parts)
          /\ pc' = Resume(AllButLast(parts))
          /\ rejoined' = (rejoined \/ Rejoins(buffer \o decoderPending, parts,
                                              LineEvents(Head(parts))))
  /\ UNCHANGED <<upstream, toolVars, submitVars, downVars, exitPath, logVars>>
  /\ UNCHANGED <<requestVars, otherVars>>

(* reader.read() returns done: break, then finally                         *)
ReadDone ==
  /\ pc = "read"
  /\ pos = Len(upstream)
  /\ enqueued' = Enqueue(conn, enqueued, AtEndOfStream(LineEvents(buffer)))
  /\ LET f == Finally(conn, closeCalls)
     IN conn' = f.conn /\ closeCalls' = f.closeCalls
  /\ pc' = "done"
  /\ exitPath' = "ended"
  /\ UNCHANGED <<primaryVars, lines, toolVars, submitVars, cancelled, logVars,
                 rejoined>>
  /\ UNCHANGED <<requestVars, otherVars>>

(* reader.read() rejects: catch (streamError), then finally                *)
ReadThrows ==
  /\ pc = "read"
  /\ enqueued' = CatchStreamError(conn, enqueued)
  /\ LET f == Finally(conn, closeCalls)
     IN conn' = f.conn /\ closeCalls' = f.closeCalls
  /\ pc' = "done"
  /\ exitPath' = "read_threw"
  /\ UNCHANGED <<primaryVars, lines, toolVars, submitVars, cancelled, logVars,
                 rejoined>>
  /\ UNCHANGED <<requestVars, otherVars>>

(* one iteration of for (const line of lines)                              *)
ProcessLine ==
  /\ pc = "lines"
  /\ LET line == Head(lines)
         rest == Tail(lines)
         event == JsonParse(Slice6(line))
     IN IF ~IsDataLine(line)
          THEN /\ lines' = rest
               /\ pc' = Resume(rest)
               /\ UNCHANGED <<toolVars, enqueued, batchLog>>
        ELSE IF ~event.ok
          THEN /\ lines' = AfterParseError(rest)
               /\ pc' = Resume(AfterParseError(rest))
               /\ UNCHANGED <<toolVars, enqueued, batchLog>>
        ELSE IF event.object = "thread.run" /\ event.status = "requires_action"
          THEN /\ lines' = rest
               /\ toolCalls' = ToolCallsOf(event.calls)
               /\ toolOutputs' = <<>>
               /\ toolIdx' = 1
               /\ batchLog' = Append(batchLog, event.calls)
               /\ pc' = "tools"
               /\ UNCHANGED enqueued
        ELSE /\ lines' = rest
             /\ enqueued' = Enqueue(conn, enqueued, EventEvents(event))
             /\ pc' = Resume(rest)
             /\ UNCHANGED <<toolVars, batchLog>>
  /\ UNCHANGED <<primaryVars, submitVars, conn, closeCalls, cancelled, exitPath,
                 submitted, webhooks, conts, rejoined>>
  /\ UNCHANGED <<requestVars, otherVars>>

(* for (const toolCall of toolCalls) has gone through every tool call      *)
AfterFirstCall(idx, calls) == idx > 1
LoopFinished(idx, calls) == idx > Len(calls)

(* one iteration of for (const toolCall of toolCalls), up to the await of  *)
(* generatePDFEstimate.  A tool call without a function member throws out  *)
(* of the loop into the catch of the line.                                 *)
ProcessToolCall ==
  /\ pc = "tools"
  /\ toolIdx <= Len(toolCalls)
  /\ LET toolCall == toolCalls[toolIdx]
         parsed == ParseArguments(toolCall.arguments)
         validation == ValidateEstimateData(parsed.params)
     IN IF ~toolCall.hasFunction
          THEN /\ toolCalls' = <<>>
               /\ toolIdx' = 0
               /\ toolOutputs' = <<>>
               /\ pc' = Resume(lines)
        ELSE IF toolCall.name # PdfTool
          THEN /\ toolOutputs' = Append(toolOutputs,
                                   ToolOutput(toolCall.id, UnknownToolResult(toolCall.name)))
               /\ toolIdx' = toolIdx + 1
               /\ UNCHANGED <<toolCalls, pc>>
        ELSE IF ~parsed.ok
          THEN /\ toolOutputs' = Append(toolOutputs,
                                   ToolOutput(toolCall.id, FailureResult(ArgumentsSyntaxError)))
               /\ toolIdx' = toolIdx + 1
               /\ UNCHANGED <<toolCalls, pc>>
        ELSE IF ~validation.valid
          THEN /\ toolOutputs' = Append(toolOutputs,
                                   ToolOutput(toolCall.id, FailureResult(validation.error)))
               /\ toolIdx' = toolIdx + 1
               /\ UNCHANGED <<toolCalls, pc>>
        ELSE /\ pc' = "tool_await"
             /\ UNCHANGED toolVars
  /\ UNCHANGED <<primaryVars, lines, submitVars, downVars, exitPath, logVars,
                 rejoined>>
  /\ UNCHANGED <<requestVars, otherVars>>

(* generatePDFEstimate returns: record the output, then emit tool_result;  *)
(* when the enqueue throws, the catch records a second output.             *)
ToolReturns ==
  /\ pc = "tool_await"
  /\ \E outcome \in WebhookOutcomes :
       LET toolCall == toolCalls[toolIdx]
           result == GeneratePDFEstimate(ParseArguments(toolCall.arguments).params, outcome)
           recorded == Append(toolOutputs, ToolOutput(toolCall.id, result))
       IN /\ webhooks' = Append(webhooks, outcome)
          /\ enqueued' = Enqueue(conn, enqueued, <<ToolResultEvent(result)>>)
          /\ toolOutputs' =
               IF conn = "open" THEN recorded
               ELSE Append(recorded, ToolOutput(toolCall.id, FailureResult(EnqueueTypeError)))
  /\ toolIdx' = toolIdx + 1
  /\ pc' = "tools"
  /\ UNCHANGED <<primaryVars, lines, toolCalls, submitVars, conn, closeCalls,
                 cancelled, exitPath, batchLog, submitted, conts, rejoined>>
  /\ UNCHANGED <<requestVars, otherVars>>

(* after the loop: if (toolOutputs.length > 0) fetch(submit_tool_outputs)  *)
ToolsDone ==
  /\ pc = "tools"
  /\ LoopFinished(toolIdx, toolCalls)
  /\ IF toolOutputs = <<>>
       THEN /\ pc' = Resume(lines)
            /\ toolCalls' = <<>>
            /\ toolIdx' = 0
            /\ UNCHANGED <<toolOutputs, submitted>>
       ELSE /\ pc' = "submit_await"
            /\ submitted' = Append(submitted,
                 [batch |-> Len(batchLog), tool_outputs |-> toolOutputs,
                  processed |-> toolIdx - 1, response |-> "pending"])
            /\ UNCHANGED toolVars
  /\ UNCHANGED <<primaryVars, lines, submitVars, downVars, exitPath, batchLog,
                 webhooks, conts, rejoined>>
  /\ UNCHANGED <<requestVars, otherVars>>

(* how the submit fetch can settle: it rejects, the response is not ok,    *)
(* it is ok without a body reader, or it is ok with a body                 *)
SubmitFailures == {"throws", "not_ok"}
SubmitOutcomes == SubmitFailures \cup {"no_body", "stream"}

(* if (!submitResponse.ok) console.error(..) and catch (submitError)       *)
(* console.error(..): nothing is enqueued for a submission that failed     *)
SubmitFailureReported(outcome) ==
  IF outcome \in SubmitFailures THEN <<StreamErrorEvent>> ELSE <<>>
SubmitFailureEvents(outcome) == <<>>

(* the response of the submit request issued last                          *)
Settled(log, outcome) == [log EXCEPT ![Len(log)].response = outcome]

(* the submit fetch settles: rejected, not ok, ok without a body reader,   *)
(* or ok with a body that is then relayed                                  *)
SubmitReturns ==
  /\ pc = "submit_await"
  /\ \E outcome \in SubmitOutcomes :
       /\ submitted' = Settled(submitted, outcome)
       /\ IF outcome = "stream"
            THEN \E s \in ContStreams :
                   /\ submitStream' = s
                   /\ submitPos' = 0
                   /\ submitPending' = <<>>
                   /\ submitBuffer' = <<>>
                   /\ conts' = Append(conts,
                        [stream |-> s, from |-> Len(enqueued), end |-> "open"])
                   /\ pc' = "cont_read"
                   /\ UNCHANGED enqueued
            ELSE /\ enqueued' = Enqueue(conn, enqueued, SubmitFailureEvents(outcome))
                 /\ pc' = Resume(lines)
                 /\ UNCHANGED <<submitVars, conts>>
  /\ toolCalls' = <<>>
  /\ toolIdx' = 0
  /\ toolOutputs' = <<>>
  /\ UNCHANGED <<primaryVars, lines, conn, closeCalls, cancelled, exitPath,
                 batchLog, webhooks, rejoined>>
  /\ UNCHANGED <<requestVars, otherVars>>

(* submitReader.read() returns a chunk; its lines are handled at once      *)
ContReadChunk ==
  /\ pc = "cont_read"
  /\ \E k \in 1..(Len(submitStream) - submitPos) :
       LET value == SubSeq(submitStream, submitPos + 1, submitPos + k)
           d == Decode(submitPending, value)
           parts == Split(submitBuffer \o d.text)
           submitLines == AllButLast(parts)
       IN /\ submitPos' = submitPos + k
          /\ submitPending' = d.pending
          /\ submitBuffer' = SubmitRetained(parts)
          /\ enqueued' = Enqueue(conn, enqueued,
               Flatten([i \in 1..Len(submitLines) |-> SubmitLineEvents(submitLines[i])]))
          /\ rejoined' = (rejoined \/ Rejoins(submitBuffer \o submitPending, parts,
                                              SubmitLineEvents(Head(parts))))
  /\ UNCHANGED <<primaryVars, pc, lines, toolVars, submitStream, conn, closeCalls,
                 cancelled, exitPath, logVars>>
  /\ UNCHANGED <<requestVars, otherVars>>

(* the continuation loop is left: the for loop over the lines of the       *)
(* primary chunk goes on with the line after the requires_action line      *)
RestSkipped(rest) == "read"
AfterContinuation(rest) == Resume(rest)

EndCont(how, evs) ==
  /\ conts' = [conts EXCEPT ![Len(conts)].end = how]
  /\ enqueued' = Enqueue(conn, enqueued, evs)
  /\ submitStream' = <<>>
  /\ submitPos' = 0
  /\ submitPending' = <<>>
  /\ submitBuffer' = <<>>
  /\ pc' = AfterContinuation(lines)
  /\ UNCHANGED <<primaryVars, lines, toolVars, conn, closeCalls, cancelled,
                 exitPath, batchLog, submitted, webhooks, rejoined>>
  /\ UNCHANGED <<requestVars, otherVars>>

(* submitReader.read() returns done: back to the lines of the primary chunk *)
ContReadDone ==
  /\ pc = "cont_read"
  /\ submitPos = Len(submitStream)
  /\ EndCont("done", AtEndOfStream(SubmitLineEvents(submitBuffer)))

(* submitReader.read() rejects: catch (submitError), back to the lines     *)
ContReadThrows ==
  /\ pc = "cont_read"
  /\ EndCont("threw", <<>>)

(* the client goes away while start() is suspended: the stream is          *)
(* cancelled, which closes it                                              *)
Cancel ==
  /\ pc \in AwaitPcs
  /\ conn = "open"
  /\ conn' = "closed"
  /\ cancelled' = TRUE
  /\ UNCHANGED <<primaryVars, pc, lines, toolVars, submitVars, enqueued,
                 closeCalls, exitPath, logVars, rejoined>>
  /\ UNCHANGED <<requestVars, otherVars>>

(* ------------------------- POST, before the stream -------------------- *)
ConfigDetails(name) == "Please set the " \o name \o " environment variable"
BodyParseFailed == "Failed to parse body as FormData."

(* the checks before the first fetch, in their order; NoResponse when the  *)
(* request passes them all.  request.formData() rejects for a body that is *)
(* not form data, which the outer catch reports.                           *)
Rejection(e, f) ==
  IF ~e.apiKey
    THEN JsonError(500, "OpenAI API key is not configured",
                   ConfigDetails("OPENAI_API_KEY"))
  ELSE IF ~e.assistantId
    THEN JsonError(500, "OpenAI Assistant ID is not configured",
                   ConfigDetails("OPENAI_ASSISTANT_ID"))
  ELSE IF ~f.parsable
    THEN JsonError(500, "Failed to process request", BodyParseFailed)
  ELSE IF ~UsableMessage(f.message)
    THEN JsonError(400, "Message content is required", "")
  ELSE NoResponse

(* for (const [, file] of files) if (file instanceof File) : the index of  *)
(* the next entry that is uploaded, from idx on                            *)
RECURSIVE NextFile(_, _)
NextFile(idx, files) ==
  IF idx > Len(files) \/ IsFile(files[idx]) THEN idx
  ELSE NextFile(idx + 1, files)
AfterUploads(idx, files) == IF idx > Len(files) THEN "thread" ELSE "upload"

(* where POST goes on after a fetch settled: the catch of each fetch       *)
(* returns the error response                                              *)
UploadErrorsIgnored(outcome, idx, files) == AfterUploads(idx, files)
AfterUpload(outcome, idx, files) ==
  IF outcome = "ok" THEN AfterUploads(idx, files) ELSE "responded"
AfterThread(outcome) == IF outcome = "ok" THEN "message" ELSE "responded"
MessageErrorsIgnored(outcome) == "run"
AfterMessage(outcome) == IF outcome = "ok" THEN "run" ELSE "responded"
AfterRun(outcome) == IF outcome = "ok" THEN "start" ELSE "responded"

(* POST from its first line to the upload loop                             *)
CheckRequest ==
  /\ pc = "post"
  /\ LET r == Rejection(env, form)
     IN IF r # NoResponse
          THEN /\ response' = r
               /\ pc' = "responded"
               /\ UNCHANGED fileIdx
          ELSE /\ fileIdx' = NextFile(1, form.files)
               /\ pc' = AfterUploads(NextFile(1, form.files), form.files)
               /\ UNCHANGED response
  /\ fileIds' = <<>>
  /\ UNCHANGED <<env, form, currentThreadId, fetches>>
  /\ UNCHANGED <<upstream, pos, decoderPending, buffer, lines, toolVars,
                 submitVars, downVars, exitPath, logVars, rejoined, otherVars>>

(* one turn of the upload loop: fetch(/v1/files) for the entry at fileIdx  *)
UploadFile ==
  /\ pc = "upload"
  /\ fileIdx <= Len(form.files)
  /\ \E outcome \in FetchOutcomes :
       LET file == form.files[fileIdx]
           idx == NextFile(fileIdx + 1, form.files)
       IN /\ fetches' = Append(fetches,
               Call("upload", Null, file.name, <<>>, <<>>, outcome))
          /\ IF outcome = "ok"
               THEN /\ fileIds' = Append(fileIds, FileIdOf(file.name))
                    /\ UNCHANGED response
               ELSE /\ response' = JsonError(500, "Failed to upload file",
                                     Details("File upload failed: ", outcome))
                    /\ UNCHANGED fileIds
          /\ fileIdx' = idx
          /\ pc' = AfterUpload(outcome, idx, form.files)
  /\ UNCHANGED <<env, form, currentThreadId>>
  /\ UNCHANGED <<upstream, pos, decoderPending, buffer, lines, toolVars,
                 submitVars, downVars, exitPath, logVars, rejoined, otherVars>>

(* let currentThreadId = threadId; if (!currentThreadId) fetch(/v1/threads) *)
ResolveThread ==
  /\ pc = "thread"
  /\ IF ~Falsy(form.threadId)
       THEN /\ currentThreadId' = form.threadId
            /\ pc' = "message"
            /\ UNCHANGED <<response, fetches>>
       ELSE \E outcome \in FetchOutcomes :
              /\ fetches' = Append(fetches,
                   Call("createThread", Null, "", <<>>, <<>>, outcome))
              /\ IF outcome = "ok"
                   THEN /\ currentThreadId' = CreatedThreadId
                        /\ UNCHANGED response
                   ELSE /\ response' = JsonError(500, "Failed to create thread",
                                         Details("Thread creation failed: ", outcome))
                        /\ currentThreadId' = form.threadId
              /\ pc' = AfterThread(outcome)
  /\ UNCHANGED <<env, form, fileIdx, fileIds>>
  /\ UNCHANGED <<upstream, pos, decoderPending, buffer, lines, toolVars,
                 submitVars, downVars, exitPath, logVars, rejoined, otherVars>>

(* fetch(/v1/threads/${currentThreadId}/messages) with messageData         *)
AppendMessage ==
  /\ pc = "message"
  /\ \E outcome \in FetchOutcomes :
       LET messageData == MessageData(form.message, fileIds)
       IN /\ fetches' = Append(fetches,
               Call("appendMessage", currentThreadId, "", messageData.content,
                    messageData.attachments, outcome))
          /\ IF outcome = "ok"
               THEN UNCHANGED response
               ELSE response' = JsonError(500, "Failed to add message to thread",
                                  Details("Message creation failed: ", outcome))
          /\ pc' = AfterMessage(outcome)
  /\ UNCHANGED <<env, form, fileIdx, fileIds, currentThreadId>>
  /\ UNCHANGED <<upstream, pos, decoderPending, buffer, lines, toolVars,
                 submitVars, downVars, exitPath, logVars, rejoined, otherVars>>

(* fetch(/v1/threads/${currentThreadId}/runs) with stream: true, and the   *)
(* return of the event stream whose start(controller) is the relay         *)
StartRun ==
  /\ pc = "run"
  /\ \E outcome \in FetchOutcomes :
       /\ fetches' = Append(fetches,
            Call("startRun", currentThreadId, "", <<>>, <<>>, outcome))
       /\ response' = IF outcome = "ok" THEN EventStream
                      ELSE JsonError(500, "Failed to create assistant run",
                             Details("Run creation failed: ", outcome))
       /\ pc' = AfterRun(outcome)
  /\ UNCHANGED <<env, form, fileIdx, fileIds, currentThreadId>>
  /\ UNCHANGED <<upstream, pos, decoderPending, buffer, lines, toolVars,
                 submitVars, downVars, exitPath, logVars, rejoined, otherVars>>

Next ==
  \/ Start
  \/ ReadChunk
  \/ ReadDone
  \/ ReadThrows
  \/ ProcessLine
  \/ ProcessToolCall
  \/ ToolReturns
  \/ ToolsDone
  \/ SubmitReturns
  \/ ContReadChunk
  \/ ContReadDone
  \/ ContReadThrows
  \/ Cancel

Spec == Init /\ [][Next]_vars

(* The relay under the scheduling the runtime gives it: a step of the      *)
(* start() function that can be taken is taken (the function runs on when  *)
(* the promise it awaits settles; every read eventually returns a chunk,   *)
(* done or an error, every tool execution and every submit call returns).  *)
(* The client's cancel is under no such obligation.                        *)
RelayStep ==
  \/ Start
  \/ ReadChunk
  \/ ReadDone
  \/ ReadThrows
  \/ ProcessLine
  \/ ProcessToolCall
  \/ ToolReturns
  \/ ToolsDone
  \/ SubmitReturns
  \/ ContReadChunk
  \/ ContReadDone
  \/ ContReadThrows
LiveStreams ==
  { Bytes(<<RunLine("q", <<"u", "g">>)>>, TRUE),
    Bytes(<<RunLine("f", <<>>), RunLine("q", <<"g">>)>>, TRUE),
    Bytes(<<DeltaLine(<<"x">>), MalformedLine>>, FALSE) }
LiveInit == Init /\ upstream \in LiveStreams
SpecLive == LiveInit /\ [][Next]_vars /\ WF_vars(RelayStep)

(* a request from its arrival on: POST, then the relay of its run          *)
RequestInit ==
  /\ upstream \in RequestStreams
  /\ pc = "post"
  /\ RelayIdle
  /\ env \in Envs
  /\ form \in Forms
  /\ fileIdx = 1
  /\ fileIds = <<>>
  /\ currentThreadId = Null
  /\ response = NoResponse
  /\ fetches = <<>>
  /\ ClientIdle
  /\ EstimateIdle
  /\ PdfIdle

RequestNext ==
  \/ CheckRequest
  \/ UploadFile
  \/ ResolveThread
  \/ AppendMessage
  \/ StartRun
  \/ Next

SpecRequest == RequestInit /\ [][RequestNext]_vars

(* ======================= the chat window (client) ====================== *)
MaxSends == 2

(* what the user has typed and attached when sendMessage runs              *)
Inputs == {<<>>, <<" ">>, <<"Q">>}
Attached == {<<>>, <<Pdf>>}

(* if (!input.trim() && uploadedFiles.length === 0) return, negated        *)
CanSend(text, files) == ~(Trim(text) = <<>> /\ files = <<>>)

(* formData: message, threadId if (threadId), file_<index> per file        *)
ClientForm(text, thread, files) ==
  Form(Field(text), IF Falsy(thread) THEN Null ELSE thread, files)

(* `data: ${JSON.stringify(event)}\n\n` as bytes: the type of the event    *)
(* and its one string member                                               *)
WireTag(type) ==
  CASE type = "thread_id" -> "T"
    [] type = "content" -> "C"
    [] type = "error" -> "E"
    [] type = "tool_result" -> "L"
WireTags == {"T", "C", "E", "L"}
EncodeEvent(e) ==
  DataPrefix \o <<"{", WireTag(e.type), e.content, "}", "\n", "\n">>
Encode(evs) == Flatten([i \in 1..Len(evs) |-> EncodeEvent(evs[i])])

(* what /api/chat answers to a posted form: the 400 rejection of a blank   *)
(* message, a 500 of a failed upstream call, or the event stream, which    *)
(* begins with the thread_id event of the supplied or the created thread.  *)
(* creates: a thread was created upstream for this request.                *)
NewThreadId(created) == "thread_" \o ToString(Len(created) + 1)
ThreadFor(f, created) ==
  IF Falsy(f.threadId) THEN NewThreadId(created) ELSE f.threadId
Reply(kind, status, error, bytes, creates) ==
  [kind |-> kind, status |-> status, error |-> error, body |-> bytes,
   creates |-> creates]
EventLists(id) ==
  { <<ThreadIdEvent(id), ContentEvent("x", "primary")>>,
    <<ThreadIdEvent(id), ContentEvent("x", "primary"), RunFailedEvent>>,
    <<ThreadIdEvent(id), StreamErrorEvent>>,
    <<ThreadIdEvent(id), ContentEvent(" ", "primary")>>,
    <<ThreadIdEvent(id)>> }
ServerReplies(f, created) ==
  IF ~UsableMessage(f.message)
    THEN {Reply("json", 400, "Message content is required", <<>>, FALSE)}
  ELSE (IF Falsy(f.threadId)
          THEN {Reply("json", 500, "Failed to create thread", <<>>, FALSE)}
          ELSE {})
       \cup {Reply("json", 500, "Failed to create assistant run", <<>>,
                   Falsy(f.threadId))}
       \cup {Reply("stream", 200, "", Encode(evs), Falsy(f.threadId)) :
               evs \in EventLists(ThreadFor(f, created))}

(* JSON.parse(line.slice(6)) of a line of the response                     *)
NoData == [ok |-> FALSE, type |-> "", value |-> ""]
ClientParse(data) ==
  IF Len(data) = 4 /\ data[1] = "{" /\ data[4] = "}" /\ data[2] \in WireTags
    THEN [ok |-> TRUE,
          type |-> CASE data[2] = "T" -> "thread_id"
                     [] data[2] = "C" -> "content"
                     [] data[2] = "E" -> "error"
                     [] data[2] = "L" -> "tool_result",
          value |-> data[3]]
  ELSE NoData

(* for (const line of lines): a thread_id event sets threadId, a content   *)
(* event is accumulated; the Error thrown for an error event and the       *)
(* SyntaxError of JSON.parse are both caught by catch (parseError)         *)
RECURSIVE ClientLines(_, _, _)
ClientLines(ls, thread, acc) ==
  IF ls = <<>> THEN [threadId |-> thread, accumulatedContent |-> acc]
  ELSE LET line == Head(ls)
           data == IF StartsWithData(line) THEN ClientParse(Slice6(line)) ELSE NoData
       IN IF data.ok /\ data.type = "thread_id"
            THEN ClientLines(Tail(ls), data.value, acc)
          ELSE IF data.ok /\ data.type = "content"
            THEN ClientLines(Tail(ls), thread, Append(acc, data.value))
          ELSE ClientLines(Tail(ls), thread, acc)

(* the bubble the outer catch writes                                       *)
ErrorBubble(msg) == <<"Sorry, there was an error: ", msg>>
NoContentMessage == "No response received from assistant"
ReadFailed == "network error"

ServerIdle ==
  /\ upstream = <<>>
  /\ pc = "responded"
  /\ RelayIdle
  /\ env = [apiKey |-> TRUE, assistantId |-> TRUE]
  /\ form = ServedForm
  /\ fileIdx = 1
  /\ fileIds = <<>>
  /\ currentThreadId = Null
  /\ response = NoResponse
  /\ fetches = <<>>
serverVars ==
  <<upstream, pos, pc, decoderPending, buffer, lines, toolVars, submitVars,
    downVars, exitPath, logVars, rejoined, requestVars>>

(* sendMessage up to await fetch("/api/chat")                              *)
SendMessage ==
  /\ clientPc = "idle"
  /\ Len(sent) < MaxSends
  /\ \E text \in Inputs, files \in Attached :
       /\ CanSend(text, files)
       /\ sent' = Append(sent, ClientForm(text, threadId, files))
  /\ accumulatedContent' = <<>>
  /\ bubble' = <<>>
  /\ clientPc' = "fetch"
  /\ UNCHANGED <<threadId, body, bodyPos, sends, threads>>
  /\ UNCHANGED <<serverVars, utilVars>>

(* the fetch settles: if (!response.ok) throw new Error(errorData.error),  *)
(* else the reader of the event stream                                     *)
FetchReturns ==
  /\ clientPc = "fetch"
  /\ \E r \in ServerReplies(Last(sent), threads) :
       /\ threads' = IF r.creates THEN Append(threads, NewThreadId(threads))
                     ELSE threads
       /\ IF r.kind = "json"
            THEN /\ bubble' = ErrorBubble(r.error)
                 /\ sends' = Append(sends, "error")
                 /\ clientPc' = "idle"
                 /\ UNCHANGED <<body, bodyPos>>
            ELSE /\ body' = r.body
                 /\ bodyPos' = 0
                 /\ clientPc' = "read"
                 /\ UNCHANGED <<bubble, sends>>
  /\ UNCHANGED <<threadId, sent, accumulatedContent>>
  /\ UNCHANGED <<serverVars, utilVars>>

(* reader.read() returns a chunk: decoder.decode(value), chunk.split("\n") *)
(* and the for loop over all the lines of the chunk                        *)
ClientReadChunk ==
  /\ clientPc = "read"
  /\ \E k \in 1..(Len(body) - bodyPos) :
       LET value == SubSeq(body, bodyPos + 1, bodyPos + k)
           chunk == DecodeFrom(value, FALSE).text
           after == ClientLines(Split(chunk), threadId, accumulatedContent)
       IN /\ bodyPos' = bodyPos + k
          /\ threadId' = after.threadId
          /\ accumulatedContent' = after.accumulatedContent
          /\ bubble' = after.accumulatedContent
  /\ UNCHANGED <<clientPc, sent, body, sends, threads>>
  /\ UNCHANGED <<serverVars, utilVars>>

(* reader.read() returns done: if (!accumulatedContent.trim()) throw       *)
AnyContent(acc) == FALSE
NoContent(acc) == Trim(acc) = <<>>
ClientReadDone ==
  /\ clientPc = "read"
  /\ bodyPos = Len(body)
  /\ IF NoContent(accumulatedContent)
       THEN /\ bubble' = ErrorBubble(NoContentMessage)
            /\ sends' = Append(sends, "error")
       ELSE /\ sends' = Append(sends, "ok")
            /\ UNCHANGED bubble
  /\ clientPc' = "idle"
  /\ body' = <<>>
  /\ bodyPos' = 0
  /\ UNCHANGED <<threadId, sent, accumulatedContent, threads>>
  /\ UNCHANGED <<serverVars, utilVars>>

(* reader.read() rejects: the outer catch writes the error bubble          *)
ClientReadThrows ==
  /\ clientPc = "read"
  /\ bubble' = ErrorBubble(ReadFailed)
  /\ sends' = Append(sends, "error")
  /\ clientPc' = "idle"
  /\ body' = <<>>
  /\ bodyPos' = 0
  /\ UNCHANGED <<threadId, sent, accumulatedContent, threads>>
  /\ UNCHANGED <<serverVars, utilVars>>

ClientInit ==
  /\ ServerIdle
  /\ ClientIdle
  /\ EstimateIdle
  /\ PdfIdle

ClientNext ==
  \/ SendMessage
  \/ FetchReturns
  \/ ClientReadChunk
  \/ ClientReadDone
  \/ ClientReadThrows

SpecClient == ClientInit /\ [][ClientNext]_vars

(* ====================== the generate-pdf endpoint ====================== *)
PdfInit ==
  /\ ServerIdle
  /\ ClientIdle
  /\ EstimateIdle
  /\ pdfBody \in PdfBodies
  /\ pdfPc = "post"
  /\ pdfResponse = NoPdfResponse
  /\ renders = <<>>
  /\ frames = <<>>
  /\ scopes = <<>>

(* POST up to `await generateEstimatePDFBackup(...)`: JSON.parse in its    *)
(* own try, the destructuring of data, the check of the required fields    *)
PdfPost ==
  /\ pdfPc = "post"
  /\ LET parsed == ParseBody(pdfBody)
         data == parsed.data
     IN IF ~parsed.ok
          THEN /\ pdfResponse' = PdfJson(400, "Invalid JSON", "")
               /\ pdfPc' = "done"
               /\ UNCHANGED renders
        ELSE IF ~Destructurable(data)
          THEN /\ pdfResponse' = PdfJson(500, "Failed to generate PDF", DestructureError)
               /\ pdfPc' = "done"
               /\ UNCHANGED renders
        ELSE IF ~Truthy(data.to) \/ ~ItemsTruthy(data.items) \/ LengthIsZero(data.items)
          THEN /\ pdfResponse' = PdfJson(400, MissingFields, "")
               /\ pdfPc' = "done"
               /\ UNCHANGED renders
        ELSE /\ renders' = Append(renders, [args |-> RenderArgs(data),
                                             outcome |-> "pending"])
             /\ pdfPc' = "render"
             /\ UNCHANGED pdfResponse
  /\ UNCHANGED <<pdfBody, serverVars, clientVars, estimateVars, pairVars>>

(* generateEstimatePDFBackup settles: the PDF response, or the outer catch *)
PdfRendered ==
  /\ pdfPc = "render"
  /\ \E outcome \in RenderOutcomes :
       /\ renders' = [renders EXCEPT ![Len(renders)].outcome = outcome]
       /\ pdfResponse' = IF outcome = "buffer"
                           THEN PdfOk(PdfBuffer, EstimateNumber)
                           ELSE PdfJson(500, "Failed to generate PDF", RenderError)
  /\ pdfPc' = "done"
  /\ UNCHANGED <<pdfBody, serverVars, clientVars, estimateVars, pairVars>>

PdfNext == PdfPost \/ PdfRendered

SpecPdf == PdfInit /\ [][PdfNext]_vars

(* ================== two requests handled concurrently ================== *)
(* POST is entered once per request.  What the runtime hands to an         *)
(* invocation (the run response and its reader, the controller of the      *)
(* downstream stream, the submit response) and where the invocation is     *)
(* form its frame; buffer, submitBuffer, currentThreadId and toolOutputs   *)
(* are bindings declared inside POST and start(), one set per invocation.  *)
Requests == {1, 2}
ModuleLevel(r) == 1
ScopeOf(r) == r

ThreadOf(r) == "thread_" \o ToString(r)

(* the run responses of the two requests, each as the chunks it arrives in *)
PairStreams ==
  { Bytes(<<RunLine("q", <<"v", "g">>), DeltaLine(<<"x">>)>>, TRUE),
    Bytes(<<DeltaLine(<<"C3", "A9">>), RunLine("f", <<>>)>>, TRUE) }
SplitAt == {5, 12}
Chunkings(bytes) ==
  {<<bytes>>}
  \cup {<<SubSeq(bytes, 1, k), SubSeq(bytes, k + 1, Len(bytes))>> :
          k \in SplitAt \cap 1..(Len(bytes) - 1)}
PairCont == Bytes(<<DeltaLine(<<"x", "e'">>)>>, TRUE)

NewFrame(bytes, chunks) ==
  [pc |-> "start", stream |-> bytes, chunks |-> chunks, pending |-> <<>>,
   lines |-> <<>>, toolCalls |-> <<>>, toolIdx |-> 0, enqueued |-> <<>>,
   batches |-> <<>>, webhooks |-> <<>>, submits |-> <<>>,
   cont |-> <<>>, contPending |-> <<>>]
NewScope ==
  [buffer |-> <<>>, submitBuffer |-> <<>>, currentThreadId |-> Null,
   toolOutputs |-> <<>>]

PairInit ==
  /\ ServerIdle
  /\ ClientIdle
  /\ EstimateIdle
  /\ pdfBody = Garbage /\ pdfPc = "idle" /\ pdfResponse = NoPdfResponse
  /\ renders = <<>>
  /\ \E s1 \in PairStreams, s2 \in PairStreams :
       \E c1 \in Chunkings(s1), c2 \in Chunkings(s2) :
         frames = <<NewFrame(s1, c1), NewFrame(s2, c2)>>
  /\ scopes = <<NewScope, NewScope>>

Locals(r) == scopes[ScopeOf(r)]
Becomes(r, frame, locals) ==
  /\ frames' = [frames EXCEPT ![r] = frame]
  /\ scopes' = [scopes EXCEPT ![ScopeOf(r)] = locals]
  /\ UNCHANGED <<serverVars, clientVars, estimateVars, pdfVars>>

(* start(controller) up to the first read: the thread_id event             *)
PairStart(r) ==
  /\ frames[r].pc = "start"
  /\ LET locals == [Locals(r) EXCEPT !.currentThreadId = ThreadOf(r), !.buffer = <<>>]
     IN Becomes(r, [frames[r] EXCEPT !.pc = "read",
                      !.enqueued = <<ThreadIdEvent(locals.currentThreadId)>>],
                locals)

(* reader.read() returns a chunk: decode, split, keep the last fragment    *)
PairReadChunk(r) ==
  /\ frames[r].pc = "read"
  /\ frames[r].chunks # <<>>
  /\ LET d == Decode(frames[r].pending, Head(frames[r].chunks))
         parts == Split(Locals(r).buffer \o d.text)
     IN Becomes(r, [frames[r] EXCEPT !.chunks = Tail(@), !.pending = d.pending,
                      !.lines = AllButLast(parts),
                      !.pc = Resume(AllButLast(parts))],
                [Locals(r) EXCEPT !.buffer = Retained(parts)])

(* reader.read() returns done: finally closes the stream                   *)
PairReadDone(r) ==
  /\ frames[r].pc = "read"
  /\ frames[r].chunks = <<>>
  /\ Becomes(r, [frames[r] EXCEPT !.pc = "done"], Locals(r))

(* one iteration of for (const line of lines)                              *)
PairLine(r) ==
  /\ frames[r].pc = "lines"
  /\ LET line == Head(frames[r].lines)
         rest == Tail(frames[r].lines)
         event == JsonParse(Slice6(line))
     IN IF ~IsDataLine(line)
          THEN Becomes(r, [frames[r] EXCEPT !.lines = rest, !.pc = Resume(rest)],
                       Locals(r))
        ELSE IF ~event.ok
          THEN Becomes(r, [frames[r] EXCEPT !.lines = AfterParseError(rest),
                             !.pc = Resume(AfterParseError(rest))],
                       Locals(r))
        ELSE IF event.object = "thread.run" /\ event.status = "requires_action"
          THEN Becomes(r, [frames[r] EXCEPT !.lines = rest,
                             !.toolCalls = ToolCallsOf(event.calls),
                             !.toolIdx = 1,
                             !.batches = Append(@, event.calls),
                             !.pc = "tools"],
                       [Locals(r) EXCEPT !.toolOutputs = <<>>])
        ELSE Becomes(r, [frames[r] EXCEPT !.lines = rest,
                           !.enqueued = @ \o EventEvents(event),
                           !.pc = Resume(rest)],
                     Locals(r))

(* one iteration of for (const toolCall of toolCalls), up to the await     *)
PairToolCall(r) ==
  /\ frames[r].pc = "tools"
  /\ frames[r].toolIdx <= Len(frames[r].toolCalls)
  /\ LET toolCall == frames[r].toolCalls[frames[r].toolIdx]
         parsed == ParseArguments(toolCall.arguments)
         validation == ValidateEstimateData(parsed.params)
         pushed(result) ==
           Becomes(r, [frames[r] EXCEPT !.toolIdx = @ + 1],
                   [Locals(r) EXCEPT !.toolOutputs =
                      Append(@, ToolOutput(toolCall.id, result))])
     IN IF ~toolCall.hasFunction
          THEN Becomes(r, [frames[r] EXCEPT !.toolCalls = <<>>, !.toolIdx = 0,
                             !.pc = Resume(frames[r].lines)],
                       [Locals(r) EXCEPT !.toolOutputs = <<>>])
        ELSE IF toolCall.name # PdfTool THEN pushed(UnknownToolResult(toolCall.name))
        ELSE IF ~parsed.ok THEN pushed(FailureResult(ArgumentsSyntaxError))
        ELSE IF ~validation.valid THEN pushed(FailureResult(validation.error))
        ELSE Becomes(r, [frames[r] EXCEPT !.pc = "tool_await"], Locals(r))

(* generatePDFEstimate returns: push the output, enqueue tool_result       *)
PairToolReturns(r) ==
  /\ frames[r].pc = "tool_await"
  /\ \E outcome \in WebhookOutcomes :
       LET toolCall == frames[r].toolCalls[frames[r].toolIdx]
           result == GeneratePDFEstimate(ParseArguments(toolCall.arguments).params,
                                         outcome)
       IN Becomes(r, [frames[r] EXCEPT !.webhooks = Append(@, outcome),
                        !.enqueued = Append(@, ToolResultEvent(result)),
                        !.toolIdx = @ + 1,
                        !.pc = "tools"],
                  [Locals(r) EXCEPT !.toolOutputs =
                     Append(@, ToolOutput(toolCall.id, result))])

(* after the loop: the submit_tool_outputs request for currentThreadId     *)
PairToolsDone(r) ==
  /\ frames[r].pc = "tools"
  /\ LoopFinished(frames[r].toolIdx, frames[r].toolCalls)
  /\ IF Locals(r).toolOutputs = <<>>
       THEN Becomes(r, [frames[r] EXCEPT !.toolCalls = <<>>, !.toolIdx = 0,
                          !.pc = Resume(frames[r].lines)],
                    Locals(r))
       ELSE Becomes(r, [frames[r] EXCEPT !.pc = "submit_await",
                          !.submits = Append(@,
                             [thread |-> Locals(r).currentThreadId,
                              tool_outputs |-> Locals(r).toolOutputs,
                              response |-> "pending"])],
                    Locals(r))

(* the submit fetch settles                                                *)
PairSubmitReturns(r) ==
  /\ frames[r].pc = "submit_await"
  /\ \E outcome \in SubmitOutcomes :
       LET settled == [frames[r] EXCEPT !.submits = Settled(@, outcome),
                         !.toolCalls = <<>>, !.toolIdx = 0]
       IN IF outcome = "stream"
            THEN \E chunks \in Chunkings(PairCont) :
                   Becomes(r, [settled EXCEPT !.cont = chunks, !.contPending = <<>>,
                                 !.pc = "cont_read"],
                           [Locals(r) EXCEPT !.submitBuffer = <<>>])
            ELSE Becomes(r, [settled EXCEPT
                               !.enqueued = @ \o SubmitFailureEvents(outcome),
                               !.pc = Resume(frames[r].lines)],
                         Locals(r))

(* submitReader.read() returns a chunk; its lines are handled at once      *)
PairContReadChunk(r) ==
  /\ frames[r].pc = "cont_read"
  /\ frames[r].cont # <<>>
  /\ LET d == Decode(frames[r].contPending, Head(frames[r].cont))
         parts == Split(Locals(r).submitBuffer \o d.text)
         submitLines == AllButLast(parts)
     IN Becomes(r, [frames[r] EXCEPT !.cont = Tail(@), !.contPending = d.pending,
                      !.enqueued = @ \o Flatten([i \in 1..Len(submitLines) |->
                                       SubmitLineEvents(submitLines[i])])],
                [Locals(r) EXCEPT !.submitBuffer = SubmitRetained(parts)])

(* submitReader.read() returns done: back to the primary lines             *)
PairContReadDone(r) ==
  /\ frames[r].pc = "cont_read"
  /\ frames[r].cont = <<>>
  /\ Becomes(r, [frames[r] EXCEPT !.pc = AfterContinuation(frames[r].lines)],
             Locals(r))

PairNext ==
  \E r \in Requests :
    \/ PairStart(r)
    \/ PairReadChunk(r)
    \/ PairReadDone(r)
    \/ PairLine(r)
    \/ PairToolCall(r)
    \/ PairToolReturns(r)
    \/ PairToolsDone(r)
    \/ PairSubmitReturns(r)
    \/ PairContReadChunk(r)
    \/ PairContReadDone(r)

SpecPair == PairInit /\ [][PairNext]_vars

(* ====================== validateEstimateData alone ===================== *)
MaxItems == 2

Item(description, units, cost, amount) ==
  [description |-> description, units |-> units, cost |-> cost, amount |-> amount]
Params(to, items, email, clientName) ==
  [to |-> to, items |-> items, email |-> email, clientName |-> clientName]
Items ==
  { Item(d, u, c, a) : d \in {Str("Widget"), Str("")},
                       u \in {Num(2), Num(0), Num(-1), Str("2")},
                       c \in {Num(0), Num(-1)},
                       a \in {Num(0), Num(-1)} }
GoodItem == Item(Str("Widget"), Num(2), Num(0), Num(0))
BadItem == Item(Num(7), Num(2), Str("3"), Num(-1))
NotAnArray == [t |-> "string", elems |-> <<>>]
Optional ==
  {Undef, Str("a@b.c"), Str(""), Num(0), Num(5), Bool(FALSE), Bool(TRUE)}
EstimateInputs ==
  { Params(Str("Acme"), Arr(is), Undef, Undef) : is \in SeqsUpTo(Items, MaxItems) }
  \cup { Params(to, items, Undef, Undef) :
           to \in {Undef, Str(""), Num(5), Str("Acme")},
           items \in {NoArr, NotAnArray, Arr(<<>>), Arr(<<GoodItem>>),
                      Arr(<<BadItem>>), Arr(<<GoodItem, BadItem>>)} }
  \cup { Params(Str("Acme"), Arr(<<i>>), e, c) :
           i \in {GoodItem, BadItem}, e \in Optional, c \in Optional }

EstimateInit ==
  /\ ServerIdle
  /\ ClientIdle
  /\ estimate \in EstimateInputs
  /\ verdict = NoVerdict
  /\ rendered = NotRendered
  /\ PdfIdle

(* const validation = validateEstimateData(params)                         *)
Validate ==
  /\ verdict = NoVerdict
  /\ verdict' = ValidateEstimateData(estimate)
  /\ UNCHANGED <<estimate, rendered, serverVars, clientVars, pdfVars, pairVars>>

EstimateNext == Validate

SpecEstimate == EstimateInit /\ [][EstimateNext]_vars

(* ================= EstimateGenerator.generateEstimate ================== *)
(* (n).toFixed(2) of a whole number                                        *)
ToFixed2(n) == ToString(n) \o ".00"
Dollars(n) == "$" \o ToFixed2(n)
OrZero(v) == IF Truthy(v) THEN v.n ELSE 0

RECURSIVE SumOf(_)
SumOf(ns) == IF ns = <<>> THEN 0 ELSE Head(ns) + SumOf(Tail(ns))

(* data.items.reduce((sum, item) => sum + (item.amount || 0), 0)           *)
Total(items) == SumOf([i \in 1..Len(items) |-> OrZero(items[i].amount)])

(* const amount = item.amount || (units * cost)                            *)
RowAmount(item) ==
  IF Truthy(item.amount) THEN item.amount.n ELSE OrZero(item.units) * OrZero(item.cost)
Row(item) ==
  [description |-> IF Truthy(item.description) THEN item.description.s ELSE "",
   units |-> ToString(OrZero(item.units)),
   cost |-> Dollars(OrZero(item.cost)),
   amount |-> Dollars(RowAmount(item))]
NoItemsRow == [description |-> "No items", units |-> "-", cost |-> "-", amount |-> "$0.00"]
GenerateTableRows(items) ==
  IF Len(items) = 0 THEN <<NoItemsRow>> ELSE [i \in 1..Len(items) |-> Row(items[i])]

RenderItems ==
  { Item(Str("Widget"), Num(u), Num(c), Num(a)) :
      u \in {1, 2}, c \in {0, 3}, a \in {0, 3, 6, -1} }
RenderInputs ==
  { Params(Str("Acme"), Arr(is), Undef, Undef) : is \in SeqsUpTo(RenderItems, MaxItems) }

RenderInit ==
  /\ ServerIdle
  /\ ClientIdle
  /\ estimate \in RenderInputs
  /\ verdict = NoVerdict
  /\ rendered = NotRendered
  /\ PdfIdle

(* generator.generateEstimate(data): the rows and the total of the page    *)
GenerateEstimate ==
  /\ rendered = NotRendered
  /\ rendered' = [rows |-> GenerateTableRows(estimate.items.elems),
                  total |-> Dollars(Total(estimate.items.elems))]
  /\ UNCHANGED <<estimate, verdict, serverVars, clientVars, pdfVars, pairVars>>

RenderNext ==
  \/ Validate
  \/ GenerateEstimate

SpecRender == RenderInit /\ [][RenderNext]_vars


TypeOK ==
  /\ pc \in AwaitPcs \cup {"start", "lines", "tools", "done"}
          \cup {"post", "upload", "thread", "message", "run", "responded"}
  /\ response.kind \in {"none", "json", "stream"}
  /\ conn \in {"open", "closed"}
  /\ pos \in 0..Len(upstream)

(* ======================= properties of the relay ======================= *)
Consumed == SubSeq(upstream, 1, pos)
SubmitConsumed == SubSeq(submitStream, 1, submitPos)

(* the complete lines a byte sequence yields when it arrives as one chunk  *)
OneChunkLines(bytes) == AllButLast(Split(Decode(<<>>, bytes).text))

Via(v) == SelectSeq(enqueued, LAMBDA e : e.via = v)
OfType(evs, t) == SelectSeq(evs, LAMBDA e : e.type = t)
Positions(P(_)) == {i \in 1..Len(enqueued) : P(enqueued[i])}
IsToolResult(e) == e.type = "tool_result"
IsContContent(e) == e.type = "content" /\ e.via = "cont"
IsStreamError(e) == e.type = "error" /\ e.content = StreamErrorMessage
IsRunFailedError(e) == e.type = "error" /\ e.content = RunFailedMessage

(* the events of the continuation stream being relayed                     *)
CurrentContEvents ==
  SelectSeq(SubSeq(enqueued, Last(conts).from + 1, Len(enqueued)),
            LAMBDA e : e.via = "cont")

(* the primary lines handled so far are all the lines of Consumed          *)
AtPrimaryRead == pc \in {"read", "done"} /\ ~cancelled

ParsedLine(line) == IF IsDataLine(line) THEN JsonParse(Slice6(line)) ELSE NoEvent
IsMalformedLine(line) == IsDataLine(line) /\ ~JsonParse(Slice6(line)).ok
IsFailedLine(line) ==
  ParsedLine(line).ok /\ ParsedLine(line).object = "thread.run"
                      /\ ParsedLine(line).status = "failed"
IsDeltaLine(line) ==
  ParsedLine(line).ok /\ ParsedLine(line).object = "thread.message.delta"
                      /\ ParsedLine(line).hasDelta

(* the content events of a sequence of lines, by the classification rules  *)
ContentOfLine(line, via) ==
  IF IsDeltaLine(line) THEN TextPartEvents(ParsedLine(line).parts, via) ELSE <<>>
ContentOfLines(ls, via) == Flatten([i \in 1..Len(ls) |-> ContentOfLine(ls[i], via)])

(* C1: chunk-boundary independence.  Whenever the relay is between two     *)
(* reads of a stream, the content events it has produced from that stream  *)
(* are those of the bytes read so far delivered as a single chunk, for the *)
(* primary stream and for the continuation stream: no line split across    *)
(* chunks is lost or duplicated.                                           *)
C1_ChunkBoundaryIndependence ==
  /\ AtPrimaryRead =>
       OfType(Via("primary"), "content") = ContentOfLines(OneChunkLines(Consumed), "primary")
  /\ (pc = "cont_read" /\ ~cancelled) =>
       CurrentContEvents = ContentOfLines(OneChunkLines(SubmitConsumed), "cont")

C1_Witness ==
  /\ pc = "done" /\ exitPath = "ended" /\ ~cancelled /\ rejoined
  /\ OfType(Via("primary"), "content") # <<>>
  /\ OfType(Via("cont"), "content") # <<>>

(* C2: tool output completeness.  Every submit_tool_outputs request        *)
(* carries exactly one output per tool call of its requires_action event:  *)
(* N entries, every tool_call_id the id of an input call, none twice.      *)
OutputIds(outs) == {outs[k].tool_call_id : k \in 1..Len(outs)}
C2_ToolOutputCompleteness ==
  \A j \in 1..Len(submitted) :
    LET outs == submitted[j].tool_outputs
        N == Len(batchLog[submitted[j].batch])
    IN /\ Len(outs) = N
       /\ OutputIds(outs) \subseteq 1..N
       /\ Cardinality(OutputIds(outs)) = Len(outs)

(* C3: thread-id-first.  Once start() has run, the first downstream event  *)
(* is the thread_id event and no other event is a thread_id event.         *)
C3_ThreadIdFirst ==
  pc # "start" =>
    /\ Len(enqueued) >= 1
    /\ enqueued[1].type = "thread_id"
    /\ enqueued[1].content = currentThreadId
    /\ \A i \in 2..Len(enqueued) : enqueued[i].type # "thread_id"

C3_Witness ==
  /\ pc = "done"
  /\ \E i, j, k \in 2..Len(enqueued) :
       /\ enqueued[i].type = "content"
       /\ enqueued[j].type = "tool_result"
       /\ enqueued[k].type = "error"

(* C4: connection lifecycle.  When start() is over the downstream stream   *)
(* is closed and was closed exactly once (by controller.close(), or by the *)
(* client's cancel, after which close() closes nothing), and nothing is    *)
(* enqueued on a closed stream.                                            *)
ClosedOnce ==
  pc = "done" => conn = "closed" /\ closeCalls + (IF cancelled THEN 1 ELSE 0) = 1
NothingAfterClose == conn = "closed" => enqueued' = enqueued
C4_ClosedExactlyOnce == []ClosedOnce /\ [][NothingAfterClose]_vars

C4_Witness ==
  /\ pc = "done" /\ exitPath = "ended" /\ ~cancelled /\ closeCalls = 1
  /\ Positions(IsRunFailedError) # {}
  /\ Len(submitted) > Len(conts)

(* C5: unknown tool safety.  A tool call with a function name other than   *)
(* generate_pdf_estimate that the loop has gone past has exactly one       *)
(* output, { success: false, error: "Unknown tool: <name>" }, under its    *)
(* id, in the list being built and in every list submitted; the loop goes  *)
(* on to the calls after it.                                               *)
IsUnknownCall(tok) == tok \notin {"g", "v", "j", "n"}
UnknownOutputsIn(outs, calls, upto) ==
  \A i \in 1..upto :
    IsUnknownCall(calls[i]) =>
      /\ Cardinality({k \in 1..Len(outs) : outs[k].tool_call_id = i}) = 1
      /\ \A k \in 1..Len(outs) :
           outs[k].tool_call_id = i =>
             outs[k].output = [success |-> FALSE, message |-> Undefined,
                               error |-> "Unknown tool: " \o ToolCallOf(calls[i], i).name]
C5_UnknownToolSafety ==
  /\ pc \in {"tools", "tool_await", "submit_await"} =>
       UnknownOutputsIn(toolOutputs, Last(batchLog), toolIdx - 1)
  /\ \A j \in 1..Len(submitted) :
       UnknownOutputsIn(submitted[j].tool_outputs, batchLog[submitted[j].batch],
                        Len(batchLog[submitted[j].batch]))

C5_Witness ==
  /\ pc = "submit_await"
  /\ Len(toolCalls) = 2
  /\ toolCalls[1].name = "get_weather"
  /\ toolCalls[2].name = PdfTool
  /\ Len(toolOutputs) = 2
  /\ toolOutputs[1].output.error = "Unknown tool: get_weather"

(* C6 as stated: once the handling of a requires_action event is over,     *)
(* submit_tool_outputs has been called exactly once for it.                *)
SubmitsFor(b) == {j \in 1..Len(submitted) : submitted[j].batch = b}
BetweenLines == pc \in {"read", "lines", "done"}
Submittable(calls) == calls # <<>> /\ "n" \notin Range(calls)
ToolScenario ==
  /\ pc = "done" /\ exitPath = "ended" /\ ~cancelled
  /\ batchLog = << <<"g">> >>
  /\ webhooks = <<"ok">>
  /\ Len(conts) = 1 /\ conts[1].end = "done"
C7_ToolScenario ==
  ToolScenario =>
    /\ Cardinality(Positions(IsToolResult)) = 1
    /\ \A i \in Positions(IsToolResult) :
         /\ enqueued[i].result.success = TRUE
         /\ enqueued[i].content = PdfTool
         /\ \A k \in Positions(IsContContent) : i < k
    /\ Via("cont") = ContentOfLines(OneChunkLines(conts[1].stream), "cont")
    /\ conn = "closed" /\ closeCalls = 1

C7_Witness ==
  /\ ToolScenario
  /\ Len(Via("cont")) = 2
  /\ Len(OfType(Via("primary"), "content")) = 2

(* C8: run failure in the primary stream.  Between two reads the events    *)
(* produced from the primary lines are, line by line and in order, one     *)
(* error event with the run-failed message for each failed thread.run      *)
(* event and the content events of each delta event: the lines after a     *)
(* failed event are still handled.                                         *)
ExpectedOfLine(line) ==
  IF IsFailedLine(line)
    THEN <<[type |-> "error", content |-> "The assistant run failed. Please try again.",
            result |-> NoResult, via |-> "primary"]>>
    ELSE ContentOfLine(line, "primary")
C8_RunFailedContinues ==
  AtPrimaryRead =>
    LET ls == OneChunkLines(Consumed)
    IN Via("primary") = Flatten([i \in 1..Len(ls) |-> ExpectedOfLine(ls[i])])

C8_Witness ==
  /\ pc = "done" /\ exitPath = "ended" /\ ~cancelled
  /\ \E i, j \in 1..Len(enqueued) :
       /\ i < j
       /\ IsRunFailedError(enqueued[i])
       /\ enqueued[j].type = "content" /\ enqueued[j].via = "primary"

(* C9: exception during streaming.  When the read loop was left by an      *)
(* exception (no body reader, or a read of the primary stream threw) and   *)
(* the client is still there, the last event is the error event with the   *)
(* generic message, it is the only one, and the connection is closed.      *)
C9_StreamErrorFinal ==
  (pc = "done" /\ exitPath \in {"no_reader", "read_threw"} /\ ~cancelled) =>
    /\ IsStreamError(Last(enqueued))
    /\ Cardinality(Positions(IsStreamError)) = 1
    /\ conn = "closed" /\ closeCalls = 1

C9_Witness ==
  /\ pc = "done" /\ exitPath = "read_threw" /\ ~cancelled
  /\ Len(enqueued) >= 3
  /\ IsStreamError(Last(enqueued))

(* C10: malformed line tolerance.  Between two reads the events produced   *)
(* from the primary lines are those of the same lines with every data line *)
(* whose payload is not valid JSON left out: such a line produces nothing  *)
(* and the lines after it, in the same chunk or a later one, are handled.  *)
C10_MalformedLineTolerance ==
  AtPrimaryRead =>
    LET ls == SelectSeq(OneChunkLines(Consumed), LAMBDA l : ~IsMalformedLine(l))
    IN Via("primary") = Flatten([i \in 1..Len(ls) |-> LineEvents(ls[i])])

C10_Witness ==
  /\ pc = "done" /\ exitPath = "ended" /\ ~cancelled
  /\ LET ls == OneChunkLines(upstream)
     IN /\ Len(ls) = 2
        /\ IsMalformedLine(ls[1])
        /\ LineEvents(ls[2]) # <<>>
  /\ Len(Via("primary")) >= 1

(* C11: tool submission failure.  A submit_tool_outputs request that is    *)
(* rejected or answered with a non-success status enqueues nothing (no     *)
(* error event, no continuation content), leaves what was already sent in  *)
(* place and goes on with the lines of the primary stream; when every      *)
(* submission failed, the events are those of the primary lines and the    *)
(* tool results alone, and a stream that ends is closed once as usual.     *)
FailedSubmits == {j \in 1..Len(submitted) : submitted[j].response \in SubmitFailures}
SubmitFailsNow ==
  /\ pc = "submit_await"
  /\ Last(submitted').response \in SubmitFailures
SubmitFailureStep ==
  SubmitFailsNow =>
    /\ enqueued' = enqueued
    /\ conn' = conn /\ closeCalls' = closeCalls
    /\ pc' = Resume(lines) /\ lines' = lines
    /\ pos' = pos /\ buffer' = buffer
    /\ conts' = conts
AfterFailedSubmits ==
  (AtPrimaryRead /\ FailedSubmits = 1..Len(submitted)) =>
    LET ls == OneChunkLines(Consumed)
    IN /\ Via("cont") = <<>>
       /\ Via("primary") = Flatten([i \in 1..Len(ls) |-> ExpectedOfLine(ls[i])])
       /\ exitPath \in {"none", "ended"} => Positions(IsStreamError) = {}
       /\ (pc = "done" /\ exitPath = "ended") =>
            conn = "closed" /\ closeCalls = 1 /\ pos = Len(upstream)
C11_SubmitFailureSilent == []AfterFailedSubmits /\ [][SubmitFailureStep]_vars

C11_Witness ==
  /\ pc = "done" /\ exitPath = "ended" /\ ~cancelled
  /\ FailedSubmits = {1}
  /\ Len(submitted) = 1
  /\ \E i, j, k \in 1..Len(enqueued) :
       /\ i < j /\ j < k
       /\ enqueued[i].type = "content" /\ enqueued[i].via = "primary"
       /\ IsToolResult(enqueued[j])
       /\ enqueued[k].type = "content" /\ enqueued[k].via = "primary"

(* ===================== properties of POST /api/chat ==================== *)
FetchesOf(op) == {i \in 1..Len(fetches) : fetches[i].op = op}
FailedFetches == {i \in 1..Len(fetches) : ~fetches[i].ok}
Responded == pc = "responded"
Streaming == pc \notin {"post", "upload", "thread", "message", "run", "responded"}
NoRelay == enqueued = <<>> /\ submitted = <<>> /\ webhooks = <<>> /\ conn = "open"

(* C12: upload failure abort.  When the upload of an attachment failed,    *)
(* that upload is the last fetch of the request: no further attachment is  *)
(* uploaded, no thread is created, no message is appended, no run is       *)
(* started and nothing is relayed; the request has ended with the JSON     *)
(* error response of status 500 for the failed upload.                     *)
C12_UploadFailureAbort ==
  \A i \in FetchesOf("upload") \cap FailedFetches :
    /\ i = Len(fetches)
    /\ \A j \in 1..Len(fetches) : fetches[j].op = "upload"
    /\ Responded
    /\ response.kind = "json" /\ response.status = 500
    /\ response.error = "Failed to upload file"
    /\ NoRelay

C12_Witness ==
  /\ Responded
  /\ Len(form.files) = 2
  /\ Falsy(form.threadId)
  /\ Len(fetches) = 1
  /\ fetches[1].op = "upload" /\ ~fetches[1].ok
  /\ response.error = "Failed to upload file"

(* C13: image attachment folding.  No attachment whose MIME type is an     *)
(* image is uploaded; the text of the message appended upstream is the     *)
(* user's message followed, when there are image attachments, by           *)
(* "[User has uploaded N image file(s): name1, ...]" naming exactly the    *)
(* image attachments; the attachments of the message are the file ids of   *)
(* the other attachments.                                                  *)
IsImage(entry) == IsFile(entry) /\ entry.type \in {"image/png"}
ImagesOf(files) == SelectSeq(files, IsImage)
OthersOf(files) == SelectSeq(files, LAMBDA e : IsFile(e) /\ ~IsImage(e))
RECURSIVE JoinNames(_)
JoinNames(files) ==
  IF files = <<>> THEN ""
  ELSE IF Len(files) = 1 THEN files[1].name
  ELSE files[1].name \o ", " \o JoinNames(Tail(files))
ImageSuffix(images) ==
  IF images = <<>> THEN <<>>
  ELSE << "\n", "\n",
          "[User has uploaded " \o ToString(Len(images)) \o " image file(s): "
            \o JoinNames(images) \o "]" >>
C13_ImageFolding ==
  /\ \A i \in FetchesOf("upload") :
       \A k \in 1..Len(form.files) :
         form.files[k].name = fetches[i].file => ~IsImage(form.files[k])
  /\ \A i \in FetchesOf("appendMessage") :
       /\ fetches[i].content =
            form.message.chars \o ImageSuffix(ImagesOf(form.files))
       /\ fetches[i].attachments =
            Attachments([k \in 1..Len(OthersOf(form.files)) |->
                           FileIdOf(OthersOf(form.files)[k].name)])

(* C14: a request whose message is empty or only white space and that      *)
(* carries at least one file attachment is accepted: with both settings    *)
(* present it is not answered with the 400 rejection.                      *)
BlankWithFiles ==
  /\ form.parsable
  /\ form.message.t = "string" /\ Trim(form.message.chars) = <<>>
  /\ \E k \in 1..Len(form.files) : IsFile(form.files[k])
C14_BlankMessageAccepted ==
  (env.apiKey /\ env.assistantId /\ BlankWithFiles) =>
    ~(response.kind = "json" /\ response.status = 400)

(* C15: rejection before any upstream call.  Once POST has looked at the   *)
(* request: when the API key or the assistant id is not configured the     *)
(* response is a JSON error of status 500, and when both are configured    *)
(* and the message is absent, empty or only white space it is a JSON error *)
(* of status 400; in both cases no fetch was issued and nothing is relayed.*)
Misconfigured == ~env.apiKey \/ ~env.assistantId
NoUsableMessage ==
  \/ form.message.t = "null"
  \/ \A k \in 1..Len(form.message.chars) : form.message.chars[k] \in WhiteSpace
RejectedWith(status) ==
  /\ Responded
  /\ response.kind = "json" /\ response.status = status
  /\ response.error # ""
  /\ fetches = <<>>
  /\ NoRelay
C15_RejectionBeforeUpstream ==
  pc # "post" =>
    /\ Misconfigured => RejectedWith(500)
    /\ (~Misconfigured /\ form.parsable /\ NoUsableMessage) => RejectedWith(400)

C15_Witness ==
  /\ RejectedWith(400)
  /\ form.message = Field(<<" ", "\n">>)
  /\ Len(form.files) = 2
  /\ ~Falsy(form.threadId)

(* C16: pre-stream and in-stream errors.  The fetches of a request are     *)
(* issued in the order uploads, thread creation (only without a supplied   *)
(* threadId), message append, run start, each only after all before it     *)
(* succeeded; a failed fetch is the last one, and the request then ended   *)
(* with a JSON response of an HTTP error status and without any event.     *)
(* The event stream is returned only after every fetch succeeded; from     *)
(* then on the response stays the event stream, and a relay that is left   *)
(* by an exception reports it as an error event on that stream.            *)
Rank(op) ==
  CASE op = "upload" -> 1
    [] op = "createThread" -> 2
    [] op = "appendMessage" -> 3
    [] op = "startRun" -> 4
UploadedCount == Len(SelectSeq(form.files, IsFile))
InOrder ==
  /\ \A i, j \in 1..Len(fetches) :
       i < j => /\ Rank(fetches[i].op) <= Rank(fetches[j].op)
                /\ fetches[i].op = fetches[j].op => fetches[i].op = "upload"
  /\ FetchesOf("createThread") # {} <=>
       (Falsy(form.threadId) /\ \E i \in 1..Len(fetches) : Rank(fetches[i].op) >= 2)
  /\ FetchesOf("appendMessage") # {} =>
       Cardinality(FetchesOf("upload")) = UploadedCount
  /\ FetchesOf("startRun") # {} => FetchesOf("appendMessage") # {}
FailureEndsRequest ==
  /\ FailedFetches \subseteq {Len(fetches)}
  /\ FailedFetches # {} =>
       /\ Responded
       /\ response.kind = "json" /\ response.status >= 400
       /\ NoRelay
StreamAfterSuccess ==
  /\ Streaming <=> response.kind = "stream"
  /\ response.kind = "stream" =>
       /\ response = EventStream
       /\ FailedFetches = {}
       /\ fetches # <<>> /\ Last(fetches).op = "startRun"
InBandError ==
  (pc = "done" /\ exitPath \in {"no_reader", "read_threw"} /\ ~cancelled) =>
    /\ response = EventStream
    /\ IsStreamError(Last(enqueued))
StreamStays ==
  response.kind = "stream" => (response' = response /\ fetches' = fetches)
ServerThreadUse ==
  LET used == IF Falsy(form.threadId) THEN CreatedThreadId ELSE form.threadId
  IN /\ FetchesOf("createThread") # {} => Falsy(form.threadId)
     /\ \A i \in FetchesOf("appendMessage") \cup FetchesOf("startRun") :
          fetches[i].thread = used
     /\ enqueued # <<>> =>
          enqueued[1].type = "thread_id" /\ enqueued[1].content = used
(* On the client a request posted while threadId is set carries it.        *)
SendsKnownThread ==
  (Len(sent') = Len(sent) + 1 /\ ~Falsy(threadId)) =>
    Last(sent').threadId = threadId
ClientThreadUse == [][SendsKnownThread]_vars
(* The claim: in a session all of whose finished sends were successful     *)
(* (the stream was read to its end and content was shown), at most one     *)
(* thread has been created.                                                *)
C17_OneThreadPerSession ==
  (\A i \in 1..Len(sends) : sends[i] = "ok") => Len(threads) <= 1

(* ================= properties of validateEstimateData ================== *)
(* the checks in the order of the claim: `to`, `items`, then per item in   *)
(* index order description, units, cost, amount, then email, clientName.   *)
(* An optional member counts as violated here when it is reported at all:  *)
(* a truthy value that is not a string (see C19 for the falsy ones).       *)
NonEmptyString(v) == v.t = "string" /\ v.s # ""
Check(bad, msg) == [bad |-> bad, msg |-> msg]
ItemChecks(item, n) ==
  << Check(~NonEmptyString(item.description),
           "Item " \o ToString(n) \o ": Missing or invalid description"),
     Check(~(item.units.t = "number" /\ item.units.n > 0),
           "Item " \o ToString(n) \o ": Invalid units (must be a positive number)"),
     Check(~(item.cost.t = "number" /\ item.cost.n >= 0),
           "Item " \o ToString(n) \o ": Invalid cost (must be a non-negative number)"),
     Check(~(item.amount.t = "number" /\ item.amount.n >= 0),
           "Item " \o ToString(n) \o ": Invalid amount (must be a non-negative number)") >>
ReportedOptional(v) == v.t \notin {"undefined", "string"} /\ v.n # 0
ChecksInOrder(p) ==
  << Check(~NonEmptyString(p.to),
           "Missing or invalid \"to\" field (client information)"),
     Check(~(p.items.t = "array" /\ p.items.elems # <<>>),
           "Missing or invalid \"items\" field (must be a non-empty array)") >>
  \o Flatten([n \in 1..Len(p.items.elems) |-> ItemChecks(p.items.elems[n], n)])
  \o << Check(ReportedOptional(p.email), "Invalid email field (must be a string)"),
        Check(ReportedOptional(p.clientName),
              "Invalid clientName field (must be a string)") >>
Violated(p) == {k \in 1..Len(ChecksInOrder(p)) : ChecksInOrder(p)[k].bad}
FirstViolation(p) ==
  ChecksInOrder(p)[CHOOSE k \in Violated(p) : \A j \in Violated(p) : k <= j].msg

(* C18: validateEstimateData reports the first violation in the fixed      *)
(* order: whenever a check of the list is violated the result is invalid   *)
(* and its error is the message of the earliest violated check; an item's  *)
(* message names its 1-based position.  {to: "", items: []} is reported as *)
(* a missing `to`.                                                         *)
C18_FirstViolationReported ==
  verdict # NoVerdict =>
    /\ Violated(estimate) # {} =>
         (~verdict.valid /\ verdict.error = FirstViolation(estimate))
    /\ (estimate.to = Str("") /\ estimate.items = Arr(<<>>)) =>
         verdict.error = "Missing or invalid \"to\" field (client information)"

C18_Witness ==
  /\ verdict # NoVerdict
  /\ Len(estimate.items.elems) = 2
  /\ estimate.items.elems[1] = GoodItem
  /\ estimate.items.elems[2] = Item(Str("Widget"), Num(-1), Num(-1), Num(-1))
  /\ verdict.error = "Item 2: Invalid units (must be a positive number)"

(* C19: validateEstimateData returns valid exactly when the schema holds:  *)
(* `to` is a non-empty string, `items` is a non-empty array whose items    *)
(* have a non-empty string description, number units > 0, number cost >= 0 *)
(* and number amount >= 0, and email and clientName, whenever present      *)
(* (also with a falsy value such as 0 or false), are strings.              *)
Present(v) == v.t # "undefined"
ItemConforms(item) ==
  /\ NonEmptyString(item.description)
  /\ item.units.t = "number" /\ item.units.n > 0
  /\ item.cost.t = "number" /\ item.cost.n >= 0
  /\ item.amount.t = "number" /\ item.amount.n >= 0
Schema(p) ==
  /\ NonEmptyString(p.to)
  /\ p.items.t = "array" /\ p.items.elems # <<>>
  /\ \A n \in 1..Len(p.items.elems) : ItemConforms(p.items.elems[n])
  /\ Present(p.email) => p.email.t = "string"
  /\ Present(p.clientName) => p.clientName.t = "string"
C19_ValidIffSchema ==
  verdict # NoVerdict => (verdict.valid <=> Schema(estimate))

(* ===================== properties of tool execution ==================== *)
(* C20: tool execution never raises past its boundary.  For a              *)
(* generate_pdf_estimate call, arguments that are not JSON, a webhook      *)
(* response that is not a success and a webhook request that fails each    *)
(* add, for that call id, an output with success false and an error        *)
(* message, and the loop goes on with the next call; generatePDFEstimate   *)
(* always returns, and with success true only when the webhook answered    *)
(* with success.  Every submitted batch holds such an output for each of   *)
(* its calls with unparsable arguments.                                    *)
CurrentToken == Last(batchLog)[toolIdx]
NewOutput == toolOutputs'[Len(toolOutputs) + 1]
IsFailureFor(out, id) ==
  /\ out.tool_call_id = id
  /\ out.output.success = FALSE
  /\ out.output.error # Undefined
LoopGoesOn ==
  /\ pc' = "tools" /\ toolIdx' = toolIdx + 1
  /\ toolCalls' = toolCalls /\ exitPath' = exitPath /\ lines' = lines
UnparsableStep ==
  (pc = "tools" /\ toolIdx <= Len(toolCalls) /\ CurrentToken = "j") =>
    /\ toolOutputs' = Append(toolOutputs, NewOutput)
    /\ IsFailureFor(NewOutput, toolCalls[toolIdx].id)
    /\ webhooks' = webhooks
    /\ LoopGoesOn
WebhookStep ==
  (pc = "tool_await" /\ pc' # pc) =>
    /\ Len(webhooks') = Len(webhooks) + 1
    /\ Len(toolOutputs') > Len(toolOutputs)
    /\ NewOutput.tool_call_id = toolCalls[toolIdx].id
    /\ NewOutput.output.success = TRUE <=> Last(webhooks') = "ok"
    /\ Last(webhooks') # "ok" => IsFailureFor(NewOutput, toolCalls[toolIdx].id)
    /\ LoopGoesOn
UnparsableSubmitted ==
  \A j \in 1..Len(submitted) :
    \A i \in 1..Len(batchLog[submitted[j].batch]) :
      batchLog[submitted[j].batch][i] = "j" =>
        \E k \in 1..Len(submitted[j].tool_outputs) :
          IsFailureFor(submitted[j].tool_outputs[k], i)
C20_ToolExecutionContained ==
  []UnparsableSubmitted /\ [][UnparsableStep /\ WebhookStep]_vars

C20_Witness ==
  /\ pc = "done" /\ exitPath = "ended" /\ ~cancelled
  /\ batchLog = << <<"j", "g">> >>
  /\ webhooks = <<"http_error">>
  /\ Len(submitted) = 1
  /\ Len(submitted[1].tool_outputs) = 2
  /\ IsFailureFor(submitted[1].tool_outputs[1], 1)
  /\ IsFailureFor(submitted[1].tool_outputs[2], 2)

(* ------------------------------------------------------------------------ *)
(* C21  Validation short-circuit: when the arguments of a                   *)
(* generate_pdf_estimate call parse but fail validateEstimateData, the step *)
(* that handles the call appends one output for that call id whose result   *)
(* is {success: false, error: <the validation error>}, starts no webhook    *)
(* request, emits nothing downstream, and the loop goes on to the next call *)
(* of the batch; at every moment the webhook has been requested at most     *)
(* once per call whose arguments are valid.                                 *)
ToValidationError == "Missing or invalid \"to\" field (client information)"
CountOf(token, batch) == Cardinality({i \in 1..Len(batch) : batch[i] = token})
ValidCalls == CountOf("g", Flatten(batchLog))
RejectedStep ==
  (pc = "tools" /\ toolIdx <= Len(toolCalls) /\ CurrentToken = "v") =>
    /\ Len(toolOutputs') = Len(toolOutputs) + 1
    /\ toolOutputs' = Append(toolOutputs, NewOutput)
    /\ NewOutput = [tool_call_id |-> toolCalls[toolIdx].id,
                    output |-> [success |-> FALSE, message |-> Undefined,
                                error |-> ToValidationError]]
    /\ webhooks' = webhooks
    /\ enqueued' = enqueued
    /\ LoopGoesOn
WebhookOnlyForValid == Len(webhooks) <= ValidCalls
C21_ValidationShortCircuit ==
  []WebhookOnlyForValid /\ [][RejectedStep]_vars

C21_Witness ==
  /\ pc = "done" /\ exitPath = "ended" /\ ~cancelled
  /\ batchLog = << <<"v", "g">> >>
  /\ webhooks = <<"ok">>
  /\ Len(submitted) = 1
  /\ Len(submitted[1].tool_outputs) = 2
  /\ submitted[1].tool_outputs[1].output.error = ToValidationError
  /\ submitted[1].tool_outputs[2].output.success = TRUE

(* ================== properties of the generate-pdf endpoint ============ *)
(* C22  PDF render endpoint rejection: a request body that is not valid     *)
(* JSON, or whose `to` is missing or empty, or whose `items` is missing or  *)
(* an empty array, is answered with status 400, and the renderer is never   *)
(* invoked for it.                                                          *)
ToMissing(data) == data.to \in {Undef, Str("")}
ItemsMissing(data) == data.items \in {NoArr, Arr(<<>>)}
Rejectable(raw) == ~raw.json \/ ToMissing(raw.data) \/ ItemsMissing(raw.data)
C22_PdfRejection ==
  Rejectable(pdfBody) =>
    /\ renders = <<>>
    /\ pdfPc = "done" => pdfResponse.status = 400

(* the same for every body but the JSON text null, which is answered 500    *)
PdfRejectionOfObjects ==
  (Rejectable(pdfBody) /\ pdfBody # Stringify(JsonNull)) =>
    /\ renders = <<>>
    /\ pdfPc = "done" => pdfResponse.status = 400

(* C23  PDF render endpoint success: for every request body that is a JSON  *)
(* object with a non-empty `to` and a non-empty `items` array the renderer  *)
(* is invoked once, with that `to` and those `items`; when it succeeds the  *)
(* response is 200 with Content-Type application/pdf, the attachment file   *)
(* name estimate-<number>.pdf and the rendered buffer as body; when it      *)
(* throws the response is a 500 JSON error without any PDF bytes.           *)
Renderable(raw) ==
  /\ raw.json /\ raw.data.t = "object"
  /\ Truthy(raw.data.to)
  /\ raw.data.items.t = "array" /\ Len(raw.data.items.elems) > 0
AttachmentName(number) == "attachment; filename=\"estimate-" \o number \o ".pdf\""
RenderedOnce ==
  /\ Len(renders) = 1
  /\ renders[1].args.to = pdfBody.data.to
  /\ renders[1].args.items = pdfBody.data.items
C23_PdfSuccess ==
  Renderable(pdfBody) =>
    /\ pdfPc # "post" => RenderedOnce
    /\ pdfPc = "done" =>
         IF renders[1].outcome = "buffer"
           THEN /\ pdfResponse.status = 200
                /\ pdfResponse.contentType = "application/pdf"
                /\ pdfResponse.disposition = AttachmentName(renders[1].args.estimateNumber)
                /\ pdfResponse.body = PdfBuffer
           ELSE /\ renders[1].outcome = "throws"
                /\ pdfResponse.status = 500
                /\ pdfResponse.contentType = "application/json"
                /\ pdfResponse.error # ""
                /\ pdfResponse.body = ""

C23_Witness ==
  /\ pdfPc = "done"
  /\ pdfBody = Stringify(Data(Str("Acme"), Arr(<<WidgetItem, WidgetItem>>),
                              Str("a@b.c"), Str("00031")))
  /\ pdfResponse.status = 200
  /\ pdfResponse.disposition = "attachment; filename=\"estimate-00001.pdf\""

(* ======================= properties of the client ====================== *)
(* C24  Client bubble termination: when a sendMessage has ended, because    *)
(* the response was an error, the stream ended or a read failed, the        *)
(* assistant bubble holds text that is not blank: the accumulated content   *)
(* when the send ended well, an error string otherwise; the step that ends  *)
(* the send clears the loading state.  A stream that ends with no content   *)
(* or only white space accumulated ends the send with the error string.     *)
IsLoading == clientPc # "idle"
SendEnded == sends # <<>> /\ Len(sends) = Len(sent) /\ ~IsLoading
IsErrorBubble(b) == Len(b) = 2 /\ b = ErrorBubble(b[2]) /\ b[2] # ""
BubbleSettled ==
  SendEnded =>
    /\ Trim(bubble) # <<>>
    /\ IF Last(sends) = "ok"
         THEN bubble = accumulatedContent
         ELSE IsErrorBubble(bubble)
EndingStep ==
  sends' # sends =>
    /\ IsLoading /\ ~IsLoading'
    /\ (clientPc = "read" /\ Trim(accumulatedContent) = <<>>) =>
         /\ Last(sends') = "error"
         /\ IsErrorBubble(bubble')
C24_BubbleTermination == []BubbleSettled /\ [][EndingStep]_vars

(* a stream whose only content is white space ended with the error string   *)
C24_Witness ==
  /\ SendEnded
  /\ accumulatedContent = <<" ">>
  /\ bubble = ErrorBubble(NoContentMessage)

(* ===================== properties of the upload error ================== *)
(* C26  When the upload of an attachment fails, the error returned to the   *)
(* client identifies the failing attachment: the error or the details of    *)
(* the JSON response contains the file name of that attachment.             *)
Fragments == {"", "Failed to upload file", "File upload failed: ", ErrorData, FetchFailed}
Concat(parts) == parts[1] \o parts[2] \o parts[3]
Mentions(text, name) ==
  \E parts \in [1..3 -> Fragments \cup {name}] :
    name \in Range(parts) /\ text = Concat(parts)
C26_UploadErrorNamesFile ==
  \A i \in FetchesOf("upload") \cap FailedFetches :
    Responded =>
      \/ Mentions(response.error, fetches[i].file)
      \/ Mentions(response.details, fetches[i].file)

(* ===================== properties of content forwarding ================ *)
(* the members of delta.content of a line, read off the bytes of the line:  *)
(* a part is a text part unless it is an image_file part, and the value of  *)
(* a text part is its text, which is "" for the part "0"                    *)
DeltaOpening == DataPrefix \o <<"{", "M">>
PartsOfLine(line) ==
  IF /\ Len(line) > Len(DeltaOpening)
     /\ SubSeq(line, 1, Len(DeltaOpening)) = DeltaOpening
     /\ Last(line) = "}"
     /\ Range(SubSeq(line, Len(DeltaOpening) + 1, Len(line) - 1)) \subseteq PartTokens
    THEN SubSeq(line, Len(DeltaOpening) + 1, Len(line) - 1)
    ELSE <<>>
IsTextPart(part) == part # "i"
ValueOf(part) == IF part = "0" THEN "" ELSE part
TextPartsOf(ls) ==
  SelectSeq(Flatten([i \in 1..Len(ls) |-> PartsOfLine(ls[i])]), IsTextPart)
ForwardedValues ==
  LET evs == OfType(Via("primary"), "content")
  IN [i \in 1..Len(evs) |-> evs[i].content]

(* C27 as stated: between two reads the content events produced from the    *)
(* primary stream are one per text part of the delta events read so far,    *)
(* in the order of the parts and of the events, each with the part's value. *)
C27_EveryTextPartForwarded ==
  AtPrimaryRead =>
    LET parts == TextPartsOf(OneChunkLines(Consumed))
    IN ForwardedValues = [i \in 1..Len(parts) |-> ValueOf(parts[i])]

(* C27 amended: between two reads the content events produced from the      *)
(* primary stream are one per text part with a non-empty value of the delta *)
(* events read so far, in the order of the parts within an event and of the *)
(* events within the stream, each carrying the value of its part unchanged  *)
(* and unmerged; image parts and text parts with an empty value produce no  *)
(* event, and an event is a content event only if it stems from such a part.*)
C27_ContentForwarding ==
  AtPrimaryRead =>
    LET parts == SelectSeq(TextPartsOf(OneChunkLines(Consumed)),
                           LAMBDA p : ValueOf(p) # "")
    IN /\ ForwardedValues = [i \in 1..Len(parts) |-> ValueOf(parts[i])]
       /\ \A i \in 1..Len(enqueued) :
            enqueued[i].via = "primary" /\ enqueued[i].type = "content" =>
              enqueued[i].result = NoResult

C27_Witness ==
  /\ pc = "done" /\ exitPath = "ended" /\ ~cancelled
  /\ upstream = Bytes(<<DeltaLine(<<"i", "C3", "A9", "0", "x">>), DeltaLine(<<"x">>)>>, TRUE)
  /\ ForwardedValues = <<"e'", "x", "x">>

(* ================== properties of the order around a tool round ======== *)
IsRequiresActionLine(line) ==
  ParsedLine(line).ok /\ ParsedLine(line).object = "thread.run"
                      /\ ParsedLine(line).status = "requires_action"
RoundAt(ls) == CHOOSE b \in 1..Len(ls) : IsRequiresActionLine(ls[b])
ExpectedOfLines(ls) == Flatten([i \in 1..Len(ls) |-> ExpectedOfLine(ls[i])])
OneRound ==
  /\ pc = "done" /\ exitPath = "ended" /\ ~cancelled
  /\ Len(batchLog) = 1

(* C28  Event ordering around a tool round: when a primary stream with one  *)
(* requires_action event has been relayed to its end, the downstream events *)
(* are, in this order: the thread_id event, the events of the primary lines *)
(* before the requires_action line, the tool_result events of the batch     *)
(* (one per webhook request), the content events of the continuation        *)
(* stream (all of them when it was read to its end), and the events of the  *)
(* primary lines after the requires_action line.  The step that leaves the  *)
(* continuation goes back to the primary lines and reads: the primary       *)
(* stream is read to its end after the tool round.                          *)
RoundOrder ==
  OneRound =>
    LET ls == OneChunkLines(upstream)
        b == RoundAt(ls)
        tools == SelectSeq(enqueued, IsToolResult)
        cont == IF conts # <<>> /\ conts[1].end = "done"
                  THEN ContentOfLines(OneChunkLines(conts[1].stream), "cont")
                  ELSE Via("cont")
    IN /\ Len(tools) = Len(webhooks)
       /\ conts = <<>> => cont = <<>>
       /\ pos = Len(upstream)
       /\ enqueued = <<ThreadIdEvent(currentThreadId)>>
                       \o ExpectedOfLines(SubSeq(ls, 1, b - 1))
                       \o tools \o cont
                       \o ExpectedOfLines(SubSeq(ls, b + 1, Len(ls)))
BackToPrimary ==
  (pc = "cont_read" /\ pc' # pc) =>
    /\ pc' = IF lines = <<>> THEN "read" ELSE "lines"
    /\ lines' = lines /\ pos' = pos /\ buffer' = buffer
C28_RoundOrder == []RoundOrder /\ [][BackToPrimary]_vars

C28_Witness ==
  /\ OneRound
  /\ upstream = Bytes(<<DeltaLine(<<"x">>), RunLine("q", <<"g">>), DeltaLine(<<"x">>)>>, TRUE)
  /\ Len(conts) = 1 /\ conts[1].end = "done"
  /\ [i \in 1..Len(enqueued) |-> enqueued[i].via]
       = <<"start", "primary", "tool", "cont", "cont", "primary">>

(* ================= properties of the continuation stream =============== *)
(* C29  The continuation stream is processed with the framing and the       *)
(* classification of the primary stream: when a continuation has been read  *)
(* to its end, the events it produced are, by type and content, those the   *)
(* rules of the primary stream give for the same lines; in particular one   *)
(* error event for each failed thread.run event.                            *)
TypeAndContent(evs) ==
  [i \in 1..Len(evs) |-> [type |-> evs[i].type, content |-> evs[i].content]]
ContinuationDrained ==
  /\ pc = "done" /\ exitPath = "ended" /\ ~cancelled
  /\ Len(conts) = 1 /\ conts[1].end = "done"
C29_SameClassification ==
  ContinuationDrained =>
    TypeAndContent(Via("cont"))
      = TypeAndContent(ExpectedOfLines(OneChunkLines(conts[1].stream)))

(* ====================== properties of the end of stream ================ *)
(* the bytes of a stream up to its last newline, the lines they hold, and   *)
(* the text after the last newline                                          *)
RECURSIVE UpToLastNewline(_)
UpToLastNewline(bytes) ==
  IF bytes = <<>> \/ Last(bytes) = "\n" THEN bytes
  ELSE UpToLastNewline(AllButLast(bytes))
TerminatedLines(bytes) == OneChunkLines(UpToLastNewline(bytes))
Leftover(bytes) ==
  Decode(<<>>, SubSeq(bytes, Len(UpToLastNewline(bytes)) + 1, Len(bytes))).text
IsRecord(text) == LineEvents(text) # <<>> \/ SubmitLineEvents(text) # <<>>

(* C30  End of stream: when a stream ends, the text left in the buffer      *)
(* without a terminating newline is discarded without being parsed.  The    *)
(* step that takes the end of the primary or of the continuation stream     *)
(* enqueues nothing; when the relay is over the events of the primary       *)
(* stream are those of its newline-terminated lines alone, the events of a  *)
(* continuation read to its end are those of its newline-terminated lines   *)
(* alone, and no stream error event was produced.                           *)
EndOfStreamStep ==
  /\ (pc = "read" /\ pc' = "done" /\ exitPath' = "ended") =>
       /\ buffer = Leftover(upstream)
       /\ enqueued' = enqueued
  /\ (pc = "cont_read" /\ pc' # pc /\ Last(conts').end = "done") =>
       /\ submitBuffer = Leftover(submitStream)
       /\ enqueued' = enqueued
LeftoverDiscarded ==
  (pc = "done" /\ exitPath = "ended" /\ ~cancelled) =>
    /\ Via("primary") = ExpectedOfLines(TerminatedLines(upstream))
    /\ Positions(IsStreamError) = {}
    /\ \A k \in 1..Len(conts) :
         (Len(conts) = 1 /\ conts[k].end = "done") =>
           Via("cont") = ContentOfLines(TerminatedLines(conts[k].stream), "cont")
C30_LeftoverDiscarded == []LeftoverDiscarded /\ [][EndOfStreamStep]_vars

(* both streams ended with a complete data record that lacks its newline    *)
C30_Witness ==
  /\ pc = "done" /\ exitPath = "ended" /\ ~cancelled
  /\ IsRecord(Leftover(upstream))
  /\ Len(conts) = 1 /\ conts[1].end = "done"
  /\ IsRecord(Leftover(conts[1].stream))

(* ===================== properties of concurrent requests =============== *)
(* what a request produces when it runs alone, as a function of its run     *)
(* response and of the answers of the webhook and of the submit request:    *)
(* the outputs of a batch, the tool_result events, the downstream events    *)
RECURSIVE AloneOutputs(_, _, _)
AloneOutputs(tokens, outcomes, i) ==
  IF i > Len(tokens) THEN <<>>
  ELSE IF tokens[i] = "g"
    THEN <<ToolOutput(i, GeneratePDFEstimate(ParseArguments("g").params, Head(outcomes)))>>
           \o AloneOutputs(tokens, Tail(outcomes), i + 1)
  ELSE <<ToolOutput(i, CASE tokens[i] = "v" -> FailureResult(ToValidationError)
                         [] tokens[i] = "j" -> FailureResult(ArgumentsSyntaxError)
                         [] OTHER -> UnknownToolResult("get_weather"))>>
         \o AloneOutputs(tokens, outcomes, i + 1)
AloneToolEvents(tokens, outs) ==
  LET gs == SelectSeq(outs, LAMBDA o : tokens[o.tool_call_id] = "g")
  IN [k \in 1..Len(gs) |-> ToolResultEvent(gs[k].output)]
HasRound(ls) == \E b \in 1..Len(ls) : IsRequiresActionLine(ls[b])
AloneBatch(f) ==
  LET ls == OneChunkLines(f.stream)
  IN IF HasRound(ls) THEN ParsedLine(ls[RoundAt(ls)]).calls ELSE <<>>
AloneEvents(f, r) ==
  LET ls == OneChunkLines(f.stream)
      first == <<ThreadIdEvent(ThreadOf(r))>>
  IN IF ~HasRound(ls) THEN first \o ExpectedOfLines(ls)
     ELSE LET b == RoundAt(ls)
              outs == AloneOutputs(AloneBatch(f), f.webhooks, 1)
              cont == IF f.submits[1].response = "stream"
                        THEN ContentOfLines(OneChunkLines(PairCont), "cont")
                        ELSE <<>>
          IN first \o ExpectedOfLines(SubSeq(ls, 1, b - 1))
                   \o AloneToolEvents(AloneBatch(f), outs) \o cont
                   \o ExpectedOfLines(SubSeq(ls, b + 1, Len(ls)))

(* C25  Request isolation: when two requests are handled concurrently with  *)
(* their steps interleaved arbitrarily, a step of one request changes       *)
(* neither the frame nor the line buffers, thread id and tool-output list   *)
(* of the other; when a request is over, its downstream events and the      *)
(* tool outputs it submitted (under its own thread id) are those it         *)
(* produces when it runs alone with the same upstream answers; every        *)
(* thread_id event on a connection carries the thread id of that request.   *)
OwnStep ==
  \A r \in Requests :
    frames'[r] # frames[r] =>
      \A o \in Requests \ {r} : frames'[o] = frames[o] /\ scopes'[o] = scopes[o]
SameAsAlone ==
  \A r \in Requests :
    /\ \A i \in 1..Len(frames[r].enqueued) :
         frames[r].enqueued[i].type = "thread_id" =>
           frames[r].enqueued[i].content = ThreadOf(r)
    /\ frames[r].pc = "done" =>
         /\ frames[r].enqueued = AloneEvents(frames[r], r)
         /\ Len(frames[r].submits) = IF AloneBatch(frames[r]) = <<>> THEN 0 ELSE 1
         /\ \A j \in 1..Len(frames[r].submits) :
              /\ frames[r].submits[j].thread = ThreadOf(r)
              /\ frames[r].submits[j].tool_outputs
                   = AloneOutputs(AloneBatch(frames[r]), frames[r].webhooks, 1)
C25_RequestIsolation == []SameAsAlone /\ [][OwnStep]_vars

(* both requests are suspended in the middle of a tool round, each with     *)
(* text in its own line buffers and with its own tool outputs               *)
C25_Witness ==
  /\ frames[1].pc = "tool_await"
  /\ scopes[1].buffer # <<>>
  /\ Len(scopes[1].toolOutputs) = 1
  /\ frames[2].pc = "cont_read"
  /\ scopes[2].buffer # <<>>
  /\ scopes[2].submitBuffer # <<>>
  /\ Len(scopes[2].toolOutputs) = 2

(* ===================== properties of sequential handling =============== *)
FileNames == LET fs == SelectSeq(form.files, IsFile) IN [i \in 1..Len(fs) |-> fs[i].name]
UploadNames ==
  LET us == SelectSeq(fetches, LAMBDA c : c.op = "upload") IN [i \in 1..Len(us) |-> us[i].file]
IsPrefix(s, t) == Len(s) <= Len(t) /\ s = SubSeq(t, 1, Len(s))
ContinuationOpen == conts # <<>> /\ Last(conts).end = "open"
InToolRound == pc \in {"tools", "tool_await", "submit_await"}

(* C31  Strictly sequential handling within one request.  The attachments   *)
(* are uploaded one per step in submission order, the file ids collected    *)
(* and the attachments of the message are in that order; a webhook request  *)
(* is awaited only when every earlier call of the batch has its output, and *)
(* the outputs are in the order of the calls; each step issues at most one  *)
(* upstream request; while a tool round is being handled or a continuation  *)
(* is being drained nothing is read from the primary stream, and while a    *)
(* continuation is open no tool is run and nothing is submitted.            *)
UploadsInOrder ==
  /\ IsPrefix(UploadNames, FileNames)
  /\ IsPrefix([i \in 1..Len(fileIds) |-> SubSeq(fileIds[i], 6, Len(fileIds[i]))],
              UploadNames)
  /\ \A i \in FetchesOf("appendMessage") :
       fetches[i].attachments
         = [k \in 1..Len(FileNames) |->
              [file_id |-> "file-" \o FileNames[k], tools |-> <<"file_search">>]]
CallsInOrder ==
  /\ \A i, j \in 1..Len(toolOutputs) :
       i < j => toolOutputs[i].tool_call_id <= toolOutputs[j].tool_call_id
  /\ pc = "tool_await" =>
       {toolOutputs[k].tool_call_id : k \in 1..Len(toolOutputs)} = 1..(toolIdx - 1)
OneAtATime ==
  /\ Len(fetches') <= Len(fetches) + 1
  /\ Len(webhooks') + Len(submitted') + Len(fetches')
       <= Len(webhooks) + Len(submitted) + Len(fetches) + 1
  /\ (pos' # pos \/ submitPos' > submitPos) =>
       (webhooks' = webhooks /\ Len(submitted') = Len(submitted) /\ fetches' = fetches)
  /\ (InToolRound \/ ContinuationOpen) => pos' = pos
  /\ ContinuationOpen => (webhooks' = webhooks /\ Len(submitted') = Len(submitted))
  /\ InToolRound => submitPos' = submitPos
C31_Sequential == [](UploadsInOrder /\ CallsInOrder) /\ [][OneAtATime]_vars

C31_Witness ==
  /\ pc = "done" /\ exitPath = "ended" /\ ~cancelled
  /\ FileNames = <<"a.pdf", "p.png">>
  /\ fileIds = <<"file-a.pdf", "file-p.png">>
  /\ webhooks = <<"ok", "http_error">>
  /\ Len(conts) = 1 /\ conts[1].end = "done"

(* ===================== properties of the single tool round ============ *)
OpenConts == {i \in 1..Len(conts) : conts[i].end = "open"}
ContLines(i) == OneChunkLines(conts[i].stream)

(* C32  Only one round of tool calls is handled.  While a continuation is   *)
(* being read no tool call is taken up, no webhook is requested, nothing is *)
(* submitted, no continuation is opened and no tool_result event is         *)
(* enqueued, whatever the continuation carries (a requires_action event     *)
(* included); at most one continuation is open at a time, and it is open    *)
(* only while the relay reads it, so the primary stream and one             *)
(* continuation are the deepest nesting.                                    *)
NestingAtMostTwo ==
  /\ Cardinality(OpenConts) <= 1
  /\ OpenConts # {} <=> pc = "cont_read"
  /\ OpenConts # {} => OpenConts = {Len(conts)}
  /\ Len(conts) <= Len(submitted) /\ Len(submitted) <= Len(batchLog)
NoRoundInContinuation ==
  ContinuationOpen =>
    /\ batchLog' = batchLog /\ toolCalls' = toolCalls /\ toolOutputs' = toolOutputs
    /\ webhooks' = webhooks
    /\ submitted' = submitted
    /\ Len(conts') = Len(conts)
    /\ OfType(enqueued', "tool_result") = OfType(enqueued, "tool_result")
    /\ pc' \in {"cont_read", "read", "lines", "done"}
C32_SingleRound == []NestingAtMostTwo /\ [][NoRoundInContinuation]_vars

C32_Witness ==
  /\ pc = "done" /\ exitPath = "ended" /\ ~cancelled
  /\ Len(conts) = 1 /\ conts[1].end = "done"
  /\ HasRound(ContLines(1))
  /\ Len(batchLog) = 1 /\ Len(submitted) = 1
  /\ Len(OfType(enqueued, "tool_result")) = 1
  /\ Via("cont") = <<ContentEvent("x", "cont")>>

(* ===================== properties of the rendered amounts ============== *)
Rendered == rendered # NotRendered
GivenItems == estimate.items.elems
GivenAmounts == [i \in 1..Len(GivenItems) |-> GivenItems[i].amount.n]
Passes == ValidateEstimateData(estimate).valid

(* C33 as stated: for an estimate that passes validation, every rendered    *)
(* row shows the amount given for its item and the rendered total is the    *)
(* sum of the given amounts, so the total is the sum of the rows shown.     *)
C33_AmountsAsGiven ==
  (Rendered /\ Passes) =>
    /\ Len(rendered.rows) = Len(GivenItems)
    /\ \A i \in 1..Len(GivenItems) :
         rendered.rows[i].amount = Dollars(GivenItems[i].amount.n)
    /\ rendered.total = Dollars(SumOf(GivenAmounts))

(* what holds: the total is the sum of the given amounts, and a row shows   *)
(* the given amount when that amount is not zero                            *)
AmountsAsGivenUnlessZero ==
  (Rendered /\ Passes) =>
    /\ rendered.total = Dollars(SumOf(GivenAmounts))
    /\ \A i \in 1..Len(GivenItems) :
         GivenItems[i].amount.n # 0 =>
           rendered.rows[i].amount = Dollars(GivenItems[i].amount.n)

(* ===================== properties of the client's stream =============== *)
(* the records of a response body read whole                               *)
BodyLines(bytes) == Split(DecodeFrom(bytes, FALSE).text)
RecordsOf(bytes) ==
  LET ls == SelectSeq(BodyLines(bytes), StartsWithData)
  IN [i \in 1..Len(ls) |-> ClientParse(Slice6(ls[i]))]
ValuesOf(bytes, type) ==
  LET rs == SelectSeq(RecordsOf(bytes), LAMBDA r : r.ok /\ r.type = type)
  IN [i \in 1..Len(rs) |-> rs[i].value]

(* C34 as stated: when the response carried an error event, the send ends   *)
(* as failed and the assistant bubble shows that event's message, whether   *)
(* or not content had been accumulated.                                     *)
ErrorEventShown ==
  (ClientReadDone /\ ValuesOf(body, "error") # <<>>) =>
    /\ Last(sends') = "error"
    /\ bubble' = ErrorBubble(ValuesOf(body, "error")[1])
C34_ErrorEventShown == [][ErrorEventShown]_vars

(* C35 as stated: whatever the way the response bytes are split into read   *)
(* chunks, the content accumulated when the stream ends is the              *)
(* concatenation, in order, of the payloads of the content events sent.     *)
ContentIndependentOfChunks ==
  ClientReadDone => accumulatedContent = ValuesOf(body, "content")
C35_ChunkBoundaryIndependence == [][ContentIndependentOfChunks]_vars

(* ===================== properties of the tool_result events ============ *)
ToolResults(evs) == OfType(evs, "tool_result")
IsValidPdfCall(call) ==
  /\ call.hasFunction
  /\ call.name = PdfTool
  /\ ParseArguments(call.arguments).ok
  /\ ValidateEstimateData(ParseArguments(call.arguments).params).valid
LastN(s, n) == SubSeq(s, Len(s) - n + 1, Len(s))

(* C36  A tool_result event is enqueued for a tool call exactly when the    *)
(* call is generate_pdf_estimate, its arguments parsed and passed           *)
(* validation and generatePDFEstimate returned, with success true or false, *)
(* to a client that is still connected; it carries the result recorded for  *)
(* the call.  A call of an unknown tool, with unparsable arguments or with  *)
(* invalid data gets its output and no event, and when a batch is submitted *)
(* the tool_result events of its valid calls are already in the queue, in   *)
(* call order, and nothing has been enqueued after them.                    *)
ToolResultStep ==
  LET before == ToolResults(enqueued)
      after == ToolResults(enqueued')
  IN /\ after # before =>
          /\ pc = "tool_await" /\ conn = "open"
          /\ IsValidPdfCall(toolCalls[toolIdx])
          /\ Len(webhooks') = Len(webhooks) + 1
          /\ Len(toolOutputs') = Len(toolOutputs) + 1
          /\ Last(toolOutputs').tool_call_id = toolCalls[toolIdx].id
          /\ enqueued' = Append(enqueued, ToolResultEvent(Last(toolOutputs').output))
     /\ (Len(webhooks') > Len(webhooks) /\ conn = "open") => Len(after) = Len(before) + 1
     /\ (pc = "tools" /\ Len(toolOutputs') > Len(toolOutputs)) =>
          /\ ~IsValidPdfCall(toolCalls[toolIdx])
          /\ enqueued' = enqueued /\ webhooks' = webhooks
     /\ Len(submitted') > Len(submitted) => enqueued' = enqueued
ResultsBeforeSubmit ==
  (pc = "submit_await" /\ conn = "open") =>
    LET calls == ToolCallsOf(batchLog[Last(submitted).batch])
        outs == Last(submitted).tool_outputs
        valid == SelectSeq(calls, IsValidPdfCall)
    IN /\ Len(outs) = Len(calls)
       /\ Len(enqueued) >= Len(valid)
       /\ LastN(enqueued, Len(valid))
            = [i \in 1..Len(valid) |-> ToolResultEvent(outs[valid[i].id].output)]
C36_ToolResultIff == []ResultsBeforeSubmit /\ [][ToolResultStep]_vars

C36_Witness ==
  /\ pc = "submit_await" /\ conn = "open"
  /\ batchLog = <<<<"u", "g">>>>
  /\ webhooks = <<"http_error">>
  /\ Len(toolOutputs) = 2
  /\ ToolResults(enqueued) = <<ToolResultEvent(toolOutputs[2].output)>>
  /\ ~toolOutputs[2].output.success

(* ===================== properties of termination ======================= *)
Waits == {"read", "tool_await", "submit_await", "cont_read"}
Running == {"start", "lines", "tools"}
Closed == pc = "done" /\ conn = "closed"

(* C37  Relay termination.  When every read of an upstream stream, every    *)
(* tool execution and every submit call eventually returns, the relay       *)
(* reaches its end with the downstream connection closed and stays there;   *)
(* until then it is either running or waiting for one of those three: an    *)
(* upstream read, a tool execution or a submit call.                        *)
OnlyUpstreamWaits ==
  /\ pc \in Waits \cup Running \cup {"done"}
  /\ pc \in Waits <=> pc \in AwaitPcs
  /\ pc = "done" => conn = "closed"
  /\ pc = "read" => submitStream = <<>> /\ toolCalls = <<>>
  /\ pc = "cont_read" => OpenConts = {Len(conts)}
  /\ pc \in {"tool_await", "submit_await"} => toolCalls # <<>>
C37_RelayTermination == <>[]Closed /\ []OnlyUpstreamWaits

C37_Witness ==
  /\ Closed /\ ~cancelled /\ exitPath = "ended" /\ closeCalls = 1
  /\ batchLog = <<<<"u", "g">>>> /\ Len(webhooks) = 1 /\ Len(conts) = 1
  /\ pos = Len(upstream)

(* ===================== properties of a throwing handler ================ *)
(* the handling of the line throws: data.delta is undefined                 *)
IsDeltaWithoutDelta(line) ==
  /\ ParsedLine(line).ok /\ ParsedLine(line).object = "thread.message.delta"
  /\ ~ParsedLine(line).hasDelta
AtThrowingLine == pc = "lines" /\ IsDeltaWithoutDelta(Head(lines))
(* the handling of the tool call throws: toolCall.function is undefined     *)
AtThrowingCall ==
  pc = "tools" /\ toolIdx <= Len(toolCalls) /\ ~toolCalls[toolIdx].hasFunction
Untouched ==
  /\ enqueued' = enqueued /\ conn' = conn /\ closeCalls' = closeCalls
  /\ exitPath' = exitPath /\ submitted' = submitted /\ webhooks' = webhooks

(* C38  Per-line confinement of handler failures.  The step that handles a  *)
(* delta event without a delta object, or a tool call without a function    *)
(* object, enqueues nothing, leaves the connection open and goes on with    *)
(* the next line of the chunk (or the next read); a batch with such a call  *)
(* is never submitted; and a relay that reaches the end of the primary      *)
(* stream has relayed every line of it, the ones after a failing line       *)
(* included, without any error event.                                       *)
ThrowConfined ==
  /\ AtThrowingLine =>
       (Untouched /\ lines' = Tail(lines) /\ pc' = Resume(Tail(lines)))
  /\ AtThrowingCall =>
       (Untouched /\ lines' = lines /\ pc' = Resume(lines) /\ toolOutputs' = <<>>)
NoSubmitAfterThrow ==
  \A j \in 1..Len(submitted) :
    \A k \in 1..Len(batchLog[submitted[j].batch]) :
      ToolCallOf(batchLog[submitted[j].batch][k], k).hasFunction
LaterLinesProcessed ==
  (pc = "done" /\ exitPath = "ended" /\ ~cancelled) =>
    /\ Via("primary") = ExpectedOfLines(OneChunkLines(upstream))
    /\ Positions(IsStreamError) = {}
C38_HandlerFailureConfined ==
  [](NoSubmitAfterThrow /\ LaterLinesProcessed) /\ [][ThrowConfined]_vars

C38_Witness ==
  /\ pc = "done" /\ exitPath = "ended" /\ ~cancelled
  /\ batchLog = <<<<"g", "n">>>>
  /\ webhooks = <<"ok">>
  /\ submitted = <<>>
  /\ Len(enqueued) = 2 /\ IsToolResult(enqueued[2])
C38_DeltaWitness ==
  /\ pc = "done" /\ exitPath = "ended" /\ ~cancelled
  /\ \E i \in 1..Len(OneChunkLines(upstream)) : IsDeltaWithoutDelta(OneChunkLines(upstream)[i])
  /\ Via("primary") = <<ContentEvent("x", "primary")>>

====
